---- MODULE Spec2Model ----
(***************************************************************************)
(* Model of the file lister: the directory walker, the scan coordinator,   *)
(* the view engine and the hover-preview pipeline                          *)
(* (src/src/app.rs, src/src/file_scanner.rs).                              *)
(*                                                                         *)
(* Text is modelled as sequences of ASCII codes, so that to_lowercase,     *)
(* string comparison and extension tests are computed as the code does.    *)
(* Absolute paths are only compared for equality and are kept as strings.  *)
(***************************************************************************)
EXTENDS Integers, Sequences, FiniteSets, TLC

\* ------------------------------------------------------------------ bounds
\* Seconds between two readings of the monotonic clock.
TickSecs == 5
\* Largest number of preview threads spawned in one behaviour.
MaxTasks == 2
\* Largest number of scan threads spawned in one behaviour.
MaxScans == 1
\* Largest number of re-scans started by file operations and by the
\* recursive checkbox in one behaviour.
MaxRescans == 2
\* Largest number of I/O failures met by one walk.
MaxFailures == 1
\* Number of days the readings of the wall clock range over.
MaxDays == 2

\* How often new() is run in one process.
MaxCalls == 2

\* How many threads running download_pdfium are started.
MaxFetches == 2

\* Decoded images are up to MaxScale * 400 + 1 pixels wide and high.
MaxScale == 4

\* ------------------------------------------------------- program constants
\* Duration::from_secs(10) in check_image_loads.
TimeoutSecs == 10

\* -------------------------------------------------------------------- text
\* char::to_lowercase on ASCII.
LowerChar(c) == IF c \in 65..90 THEN c + 32 ELSE c

\* str::to_lowercase.
ToLower(s) == [i \in 1..Len(s) |-> LowerChar(s[i])]

\* Ordering of str (lexicographic by code): -1, 0 or 1.
RECURSIVE StrCmp(_, _)
StrCmp(a, b) ==
    IF a = <<>> /\ b = <<>> THEN 0
    ELSE IF a = <<>> THEN -1
    ELSE IF b = <<>> THEN 1
    ELSE IF Head(a) < Head(b) THEN -1
    ELSE IF Head(a) > Head(b) THEN 1
    ELSE StrCmp(Tail(a), Tail(b))

\* Extension lists of is_image_file and is_video_file, as ASCII codes.
ImageExtensions ==
    { <<106,112,103>>, <<106,112,101,103>>, <<112,110,103>>, <<103,105,102>>,
      <<98,109,112>>, <<105,99,111>>, <<119,101,98,112>> }

VideoExtensions ==
    { <<109,112,52>>, <<97,118,105>>, <<109,107,118>>, <<109,111,118>>,
      <<119,109,118>>, <<102,108,118>>, <<119,101,98,109>>, <<109,52,118>>,
      <<109,112,101,103>>, <<109,112,103>>, <<51,103,112>> }

is_image_file(extension) == ToLower(extension) \in ImageExtensions

is_video_file(extension) == ToLower(extension) \in VideoExtensions

is_pdf_file(extension) == ToLower(extension) = <<112,100,102>>

is_previewable(extension) ==
    is_image_file(extension) \/ is_video_file(extension) \/ is_pdf_file(extension)

\* ----------------------------------------------------------- the file system
\* A file system is a set of nodes. A node has an id, the id of its parent
\* directory, a kind ("dir", "file", or "other" for what is neither, such as a
\* dangling link), its file name, its canonical path and its metadata.
NoParent == 0 - 1

\* /dir holding a.PNG, b.mp4, c.pdf and d.txt.
FlatDisk ==
    { [id |-> 0, parent |-> NoParent, kind |-> "dir", name |-> <<>>,
       abs |-> "/dir", size |-> 0, mtime |-> 0],
      [id |-> 1, parent |-> 0, kind |-> "file", name |-> <<97,46,80,78,71>>,
       abs |-> "/dir/a.PNG", size |-> 10, mtime |-> 0],
      [id |-> 2, parent |-> 0, kind |-> "file", name |-> <<98,46,109,112,52>>,
       abs |-> "/dir/b.mp4", size |-> 20, mtime |-> 0],
      [id |-> 3, parent |-> 0, kind |-> "file", name |-> <<99,46,112,100,102>>,
       abs |-> "/dir/c.pdf", size |-> 30, mtime |-> 0],
      [id |-> 4, parent |-> 0, kind |-> "file", name |-> <<100,46,116,120,116>>,
       abs |-> "/dir/d.txt", size |-> 10, mtime |-> 0] }

\* /dir holding a.txt, b.TXT and sub/, which holds a.txt and B.txt.
TreeDisk ==
    { [id |-> 0, parent |-> NoParent, kind |-> "dir", name |-> <<>>,
       abs |-> "/dir", size |-> 0, mtime |-> 0],
      [id |-> 1, parent |-> 0, kind |-> "file", name |-> <<97,46,116,120,116>>,
       abs |-> "/dir/a.txt", size |-> 10, mtime |-> 100],
      [id |-> 2, parent |-> 0, kind |-> "file", name |-> <<98,46,84,88,84>>,
       abs |-> "/dir/b.TXT", size |-> 20, mtime |-> 86500],
      [id |-> 3, parent |-> 0, kind |-> "dir", name |-> <<115,117,98>>,
       abs |-> "/dir/sub", size |-> 0, mtime |-> 0],
      [id |-> 4, parent |-> 3, kind |-> "file", name |-> <<97,46,116,120,116>>,
       abs |-> "/dir/sub/a.txt", size |-> 10, mtime |-> 50],
      [id |-> 5, parent |-> 3, kind |-> "file", name |-> <<66,46,116,120,116>>,
       abs |-> "/dir/sub/B.txt", size |-> 5, mtime |-> 86400] }

\* TreeDisk with a third file c.txt in /dir, next to /dest, an empty folder
\* files can be moved to.
MoveDisk ==
    TreeDisk \cup
    { [id |-> 6, parent |-> 0, kind |-> "file", name |-> <<99,46,116,120,116>>,
       abs |-> "/dir/c.txt", size |-> 30, mtime |-> 200],
      [id |-> 9, parent |-> NoParent, kind |-> "dir", name |-> <<>>,
       abs |-> "/dest", size |-> 0, mtime |-> 0] }

\* More of the same tree: sub/deep/ holding .hid, and lnk, a dangling link.
DeepDisk ==
    TreeDisk \cup
    { [id |-> 6, parent |-> 3, kind |-> "dir", name |-> <<100,101,101,112>>,
       abs |-> "/dir/sub/deep", size |-> 0, mtime |-> 0],
      [id |-> 7, parent |-> 6, kind |-> "file", name |-> <<46,104,105,100>>,
       abs |-> "/dir/sub/deep/.hid", size |-> 7, mtime |-> 86401],
      [id |-> 8, parent |-> 0, kind |-> "other", name |-> <<108,110,107>>,
       abs |-> "/dir/lnk", size |-> 0, mtime |-> 0] }

\* The trees rooted at /dir made of nodes of DeepDisk.
WalkTrees ==
    { t \in SUBSET DeepDisk :
        /\ \E n \in t : n.id = 0
        /\ \A n \in t : n.parent # NoParent => \E d \in t : d.id = n.parent }

\* Arguments scan_folder is called with: a directory, a file, a missing path.
WalkPaths == { "/dir", "/dir/a.txt", "/gone" }

Paths == { "/dir/a.PNG", "/dir/b.mp4", "/dir/c.pdf", "/dir/d.txt", "/dir/e.avi" }

Folders == { "/dir" }

\* Row indices load_hover_preview is called with (usize indices of the code,
\* shifted by one: row i of the code is row i+1). While filtered_files is
\* empty every one of them is past the end.
HoverIdx == 1..4

\* Option::None of the string-valued fields (folder, path, error message).
None == "None"

\* Option::None of image_receiver and scan_receiver; threads are numbered from 1.
NoReceiver == 0

\* Option::None of image_loading_start. An Instant is modelled by its age in
\* seconds (0 when taken by Instant::now()): elapsed() is all the code asks it.
NoInstant == 0 - 1

\* ------------------------------------------------------------ view engine
\* Seconds per day in is_today.
SecsPerDay == 86400

\* is_today(timestamp), with SystemTime::now() passed as now_secs.
is_today(timestamp, now_secs) ==
    LET today_start == now_secs - (now_secs % SecsPerDay)
    IN  timestamp >= today_start /\ timestamp < today_start + SecsPerDay

\* The comparator closures of sort_files: -1, 0 or 1.
FileCmp(column, order, a, b) ==
    LET cmp == CASE column = "Name" -> StrCmp(ToLower(a.name), ToLower(b.name))
                 [] column = "Extension" ->
                        StrCmp(ToLower(a.extension), ToLower(b.extension))
                 [] column = "Size" ->
                        IF a.file_size < b.file_size THEN -1
                        ELSE IF a.file_size > b.file_size THEN 1 ELSE 0
                 [] column = "Path" ->
                        StrCmp(ToLower(a.relative_path), ToLower(b.relative_path))
                 [] column = "Date" ->
                        IF a.modified_timestamp < b.modified_timestamp THEN -1
                        ELSE IF a.modified_timestamp > b.modified_timestamp THEN 1
                        ELSE 0
    IN  IF order = "Descending" THEN 0 - cmp ELSE cmp

RECURSIVE InsertFile(_, _, _, _)
\* InsertFile putting x before the elements that compare equal to it.
InsertFile_BeforeEquals(column, order, sorted, x) ==
    IF sorted = <<>> THEN <<x>>
    ELSE IF FileCmp(column, order, Head(sorted), x) < 0
         THEN <<Head(sorted)>> \o InsertFile(column, order, Tail(sorted), x)
         ELSE <<x>> \o sorted

\* Vec::sort_by is a stable sort: x goes after every element not greater.
InsertFile(column, order, sorted, x) ==
    IF sorted = <<>> THEN <<x>>
    ELSE IF FileCmp(column, order, Head(sorted), x) <= 0
         THEN <<Head(sorted)>> \o InsertFile(column, order, Tail(sorted), x)
         ELSE <<x>> \o sorted

RECURSIVE SortBy(_, _, _)
SortBy(column, order, fs) ==
    IF fs = <<>> THEN <<>>
    ELSE InsertFile(column, order,
                    SortBy(column, order, SubSeq(fs, 1, Len(fs) - 1)),
                    fs[Len(fs)])

\* str::contains.
Contains(hay, needle) ==
    \E i \in 0..(Len(hay) - Len(needle)) :
        SubSeq(hay, i + 1, i + Len(needle)) = needle

\* *map.entry(key).or_insert(0) += 1
Increment(map, key) ==
    IF key \in DOMAIN map
    THEN [map EXCEPT ![key] = @ + 1]
    ELSE [k \in DOMAIN map \cup {key} |-> IF k = key THEN 1 ELSE map[k]]

RECURSIVE compute_duplicates(_)
\* compute_duplicates with the lowercased full_name as the key.
compute_duplicates_IgnoresCase(fs) ==
    IF fs = <<>> THEN <<>>
    ELSE Increment(compute_duplicates(SubSeq(fs, 1, Len(fs) - 1)),
                   ToLower(fs[Len(fs)].full_name))

\* compute_duplicates: the map is cleared, then every file of fs increments the
\* entry of its full_name.
compute_duplicates(fs) ==
    IF fs = <<>> THEN <<>>
    ELSE Increment(compute_duplicates(SubSeq(fs, 1, Len(fs) - 1)), fs[Len(fs)].full_name)

\* is_duplicate(full_name).is_some()
is_duplicate(counts, full_name) ==
    full_name \in DOMAIN counts /\ counts[full_name] > 1

\* apply_filter comparing the lowercased fields with the text as typed.
apply_filter_CaseSensitive(fs, text, dups_only, today_only, now_secs) ==
    LET counts == compute_duplicates(fs)
        TextOk(f) == \/ Contains(ToLower(f.name), text)
                     \/ Contains(ToLower(f.extension), text)
                     \/ Contains(ToLower(f.relative_path), text)
                     \/ Contains(ToLower(f.full_name), text)
        DupOk(f) == is_duplicate(counts, f.full_name)
        TodayOk(f) == is_today(f.modified_timestamp, now_secs)
        text_filtered == IF text = <<>> THEN fs ELSE SelectSeq(fs, TextOk)
        after_duplicates == IF dups_only THEN SelectSeq(text_filtered, DupOk)
                            ELSE text_filtered
    IN  IF today_only THEN SelectSeq(after_duplicates, TodayOk)
        ELSE after_duplicates

\* apply_filter with the duplicates counted among the rows that passed the
\* text filter.
apply_filter_CountsFiltered(fs, text, dups_only, today_only, now_secs) ==
    LET filter == ToLower(text)
        TextOk(f) == \/ Contains(ToLower(f.name), filter)
                     \/ Contains(ToLower(f.extension), filter)
                     \/ Contains(ToLower(f.relative_path), filter)
                     \/ Contains(ToLower(f.full_name), filter)
        text_filtered == IF filter = <<>> THEN fs ELSE SelectSeq(fs, TextOk)
        counts == compute_duplicates(text_filtered)
        DupOk(f) == is_duplicate(counts, f.full_name)
        TodayOk(f) == is_today(f.modified_timestamp, now_secs)
        after_duplicates == IF dups_only THEN SelectSeq(text_filtered, DupOk)
                            ELSE text_filtered
    IN  IF today_only THEN SelectSeq(after_duplicates, TodayOk)
        ELSE after_duplicates

\* The value apply_filter leaves in filtered_files.
apply_filter(fs, text, dups_only, today_only, now_secs) ==
    LET filter == ToLower(text)
        counts == compute_duplicates(fs)
        TextOk(f) == \/ Contains(ToLower(f.name), filter)
                     \/ Contains(ToLower(f.extension), filter)
                     \/ Contains(ToLower(f.relative_path), filter)
                     \/ Contains(ToLower(f.full_name), filter)
        DupOk(f) == is_duplicate(counts, f.full_name)
        TodayOk(f) == is_today(f.modified_timestamp, now_secs)
        text_filtered == IF filter = <<>> THEN fs ELSE SelectSeq(fs, TextOk)
        after_duplicates == IF dups_only THEN SelectSeq(text_filtered, DupOk)
                            ELSE text_filtered
    IN  IF today_only THEN SelectSeq(after_duplicates, TodayOk)
        ELSE after_duplicates

\* ------------------------------------------------------------------ walker
\* Path::extension and Path::file_stem of a file name: the name is split at its
\* last dot; a name without a dot, or whose only dot leads it, has no extension.
LastDot(s) ==
    LET dots == {i \in 1..Len(s) : s[i] = 46}
    IN  IF dots = {} THEN 0 ELSE CHOOSE i \in dots : \A j \in dots : j <= i

PathExtension(s) == IF LastDot(s) <= 1 THEN <<>> ELSE SubSeq(s, LastDot(s) + 1, Len(s))

PathFileStem(s) == IF LastDot(s) <= 1 THEN s ELSE SubSeq(s, 1, LastDot(s) - 1)

NodeOf(fsys, id) == CHOOSE n \in fsys : n.id = id

\* Path::is_dir.
is_dir(fsys, path) == \E n \in fsys : n.abs = path /\ n.kind = "dir"

\* path.strip_prefix(base_path): the names from below base down to n, joined by "/".
RECURSIVE StripPrefix(_, _, _)
StripPrefix(fsys, base, n) ==
    IF n.parent = base THEN n.name
    ELSE StripPrefix(fsys, base, NodeOf(fsys, n.parent)) \o <<47>> \o n.name

\* FileInfoOf with the size of the directory entry kept when metadata() fails.
FileInfoOf_KeepsSize(fsys, base, n, env) ==
    [name |-> PathFileStem(n.name),
     extension |-> PathExtension(n.name),
     full_name |-> n.name,
     relative_path |-> StripPrefix(fsys, base, n),
     absolute_path |-> n.abs,
     file_size |-> n.size,
     modified_timestamp |-> IF n.id \in env.bad_meta THEN 0 ELSE n.mtime]

\* The FileInfo pushed for a file entry. env.bad_meta holds the files whose
\* entry.metadata() fails.
FileInfoOf(fsys, base, n, env) ==
    [name |-> PathFileStem(n.name),
     extension |-> PathExtension(n.name),
     full_name |-> n.name,
     relative_path |-> StripPrefix(fsys, base, n),
     absolute_path |-> n.abs,
     file_size |-> IF n.id \in env.bad_meta THEN 0 ELSE n.size,
     modified_timestamp |-> IF n.id \in env.bad_meta THEN 0 ELSE n.mtime]

RECURSIVE SeqById(_)
SeqById(S) ==
    IF S = {} THEN <<>>
    ELSE LET m == CHOOSE n \in S : \A k \in S : n.id <= k.id
         IN  <<m>> \o SeqById(S \ {m})

Reverse(s) == [i \in 1..Len(s) |-> s[Len(s) + 1 - i]]

\* fs::read_dir: the entries of a directory, in an order the OS chooses
\* (env.order: by id, forwards or backwards).
read_dir(fsys, dir, env) ==
    LET entries == SeqById({n \in fsys : n.parent = dir})
    IN  IF env.order = "forward" THEN entries ELSE Reverse(entries)

\* scan_folder_internal, with the loop over the entries as ScanEntries. The
\* value is [ok, files]: whether Ok(()) was returned, and the Vec behind
\* &mut files at that point. env.fail_dirs holds the directories whose
\* read_dir fails, env.bad_entries the entries the iterator yields as Err.
RECURSIVE scan_folder_internal(_, _, _, _, _, _)
RECURSIVE ScanEntries(_, _, _, _, _, _)
scan_folder_internal(fsys, base, current, rec, env, fs) ==
    IF current \in env.fail_dirs THEN [ok |-> FALSE, files |-> fs]
    ELSE ScanEntries(fsys, base, read_dir(fsys, current, env), rec, env, fs)

\* ScanEntries that descends into subdirectories whatever recursive is.
ScanEntries_AlwaysDescends(fsys, base, entries, rec, env, fs) ==
    IF entries = <<>> THEN [ok |-> TRUE, files |-> fs]
    ELSE LET e == Head(entries)
         IN  IF e.id \in env.bad_entries THEN [ok |-> FALSE, files |-> fs]
             ELSE IF e.kind = "file"
             THEN ScanEntries(fsys, base, Tail(entries), rec, env,
                              Append(fs, FileInfoOf(fsys, base, e, env)))
             ELSE IF e.kind = "dir"
             THEN LET r == scan_folder_internal(fsys, base, e.id, rec, env, fs)
                  IN  IF r.ok
                      THEN ScanEntries(fsys, base, Tail(entries), rec, env, r.files)
                      ELSE r
             ELSE ScanEntries(fsys, base, Tail(entries), rec, env, fs)

ScanEntries(fsys, base, entries, rec, env, fs) ==
    IF entries = <<>> THEN [ok |-> TRUE, files |-> fs]
    ELSE LET e == Head(entries)
         IN  IF e.id \in env.bad_entries THEN [ok |-> FALSE, files |-> fs]
             ELSE IF e.kind = "file"
             THEN ScanEntries(fsys, base, Tail(entries), rec, env,
                              Append(fs, FileInfoOf(fsys, base, e, env)))
             ELSE IF e.kind = "dir" /\ rec
             THEN LET r == scan_folder_internal(fsys, base, e.id, rec, env, fs)
                  IN  IF r.ok
                      THEN ScanEntries(fsys, base, Tail(entries), rec, env, r.files)
                      ELSE r
             ELSE ScanEntries(fsys, base, Tail(entries), rec, env, fs)

\* scan_folder that returns what was collected when the walk fails.
scan_folder_KeepsPartial(fsys, path, rec, env) ==
    IF ~is_dir(fsys, path) THEN [ok |-> FALSE, files |-> <<>>]
    ELSE LET base == (CHOOSE n \in fsys : n.abs = path).id
             r == scan_folder_internal(fsys, base, base, rec, env, <<>>)
         IN  [ok |-> TRUE, files |-> SortBy("Path", "Ascending", r.files)]

\* scan_folder(path, recursive): Ok(files) sorted by lowercased relative path,
\* or Err.
scan_folder(fsys, path, rec, env) ==
    IF ~is_dir(fsys, path) THEN [ok |-> FALSE, files |-> <<>>]
    ELSE LET base == (CHOOSE n \in fsys : n.abs = path).id
             r == scan_folder_internal(fsys, base, base, rec, env, <<>>)
         IN  IF r.ok
             THEN [ok |-> TRUE, files |-> SortBy("Path", "Ascending", r.files)]
             ELSE [ok |-> FALSE, files |-> <<>>]

\* ------------------------------------------------------------------- state
VARIABLES
    \* fields of FileListerApp
    selected_folder,        \* Option<PathBuf>
    files,                  \* Vec<FileInfo>
    filtered_files,         \* Vec<FileInfo>
    status_message,
    error_message,          \* Option<String>
    recursive,
    sort_column, sort_order,
    filter_text, show_duplicates_only, show_today_only,
    duplicate_counts,
    selected_files,         \* HashSet<usize> (rows, 1-based)
    show_delete_confirm,
    pending_delete_paths,   \* Vec<(String, String)>: absolute path, full name
    scan_receiver,          \* Option<Receiver>: None or the index of its scan thread
    is_scanning,
    image_cache,            \* absolute_path -> 0 (absent) or the preview thread
                            \* whose payload is stored under that key
    image_receiver,         \* Option<Receiver>: None or the index of its thread
    image_loading_path,     \* Option<String>
    image_loading_start,    \* Option<Instant>: NoInstant or the Instant's age
    \* process-wide flags
    FFMPEG_AVAILABLE, PDFIUM_AVAILABLE,
    FFMPEG_CHECKED, PDFIUM_CHECKED,     \* Once: whether call_once has run
    PDFIUM_DOWNLOADING,
    fetches,                \* the threads running download_pdfium
    probes,                 \* how often each probe was called and how often
                            \* its body ran
    \* environment
    tasks,                  \* preview threads, each with the channel it sends on
    scans,                  \* scan threads, each with the channel it sends on
    last,                   \* the handler the UI thread ran last, with its
                            \* argument and the branch it took
    disk,                   \* the file system
    walk_out,               \* a call of scan_folder: its arguments and result
    today_out,              \* an evaluation of the today filter: its inputs
                            \* and the rows it kept
    csv_file,               \* the file the export writes: whether it exists
                            \* and its bytes
    resize_out,             \* a decoded image put through the resizing of the
                            \* preview thread: its size and the preview's
    temp_file,              \* thumb_<pid>.png in the temp directory: missing,
                            \* empty, or the video whose frame it holds
    extractions,            \* extract_video_thumbnail in each preview thread:
                            \* where it is, the frames it asked for and got
    editing_index,          \* Option<usize>: NoRow or the row being renamed
    editing_text,
    rename_target           \* history: the absolute path of the row that
                            \* start_rename was called on

appVars == <<selected_folder, files, filtered_files, status_message, error_message,
             recursive, sort_column, sort_order, filter_text, show_duplicates_only,
             show_today_only, duplicate_counts, selected_files>>
scanVars == <<scan_receiver, is_scanning, scans>>
slotVars == <<image_receiver, image_loading_path, image_loading_start>>
flagVars == <<FFMPEG_AVAILABLE, PDFIUM_AVAILABLE, FFMPEG_CHECKED, PDFIUM_CHECKED,
              PDFIUM_DOWNLOADING, fetches, probes>>
confirmVars == <<show_delete_confirm, pending_delete_paths>>
backendVars == <<csv_file, resize_out, temp_file, extractions>>
renameVars == <<editing_index, editing_text, rename_target>>
envVars == <<disk, walk_out, today_out, backendVars, renameVars>>
vars == <<appVars, scanVars, slotVars, flagVars, confirmVars, envVars, image_cache,
          tasks, last>>

\* walk_out before scan_folder was called.
NoWalk == [called |-> FALSE]

\* today_out before the filter was evaluated.
NoEval == [called |-> FALSE]

\* The output path before anything was exported to it.
NoFile == [exists |-> FALSE, bytes |-> <<>>]

\* Option::None of editing_index; rows are numbered from 1.
NoRow == 0

\* extract_video_thumbnail before its first statement: no frame requested, no
\* attempt finished, no pixels.
NotStarted == [pc |-> "start", video_path |-> None, requests |-> <<>>,
               status |-> <<>>, yielded |-> <<>>, source |-> None]

\* SystemTime::now(), in seconds since the epoch.
SystemTimeNow == 2 * SecsPerDay - 5

\* FileListerApp::default().
Default ==
    /\ selected_folder = None
    /\ files = <<>>
    /\ filtered_files = <<>>
    /\ status_message = <<"Select a folder to scan">>
    /\ error_message = None
    /\ recursive = FALSE
    /\ sort_column = "Name"
    /\ sort_order = "Ascending"
    /\ filter_text = <<>>
    /\ show_duplicates_only = FALSE
    /\ show_today_only = FALSE
    /\ duplicate_counts = <<>>
    /\ selected_files = {}
    /\ show_delete_confirm = FALSE
    /\ pending_delete_paths = <<>>
    /\ scan_receiver = NoReceiver
    /\ is_scanning = FALSE
    /\ image_cache = [p \in Paths |-> 0]
    /\ image_receiver = NoReceiver
    /\ image_loading_path = None
    /\ image_loading_start = NoInstant
    /\ tasks = <<>>
    /\ scans = <<>>
    /\ last = [op |-> "new", arg |-> 0, ret |-> ""]
    /\ walk_out = NoWalk
    /\ today_out = NoEval
    /\ csv_file = NoFile
    /\ resize_out = NoEval
    /\ temp_file = "missing"
    /\ extractions = [t \in 1..MaxTasks |-> NotStarted]
    /\ editing_index = NoRow
    /\ editing_text = <<>>
    /\ rename_target = None

\* The statics once new() has called both probes, no fetch of the PDF library
\* under way.
Probed ==
    /\ FFMPEG_CHECKED = TRUE
    /\ PDFIUM_CHECKED = TRUE
    /\ PDFIUM_DOWNLOADING = FALSE
    /\ fetches = <<>>
    /\ probes = [ffmpeg_calls |-> 1, ffmpeg_runs |-> 1,
                 pdfium_calls |-> 1, pdfium_runs |-> 1]

\* FileListerApp::new(): the two capability probes have run.
Init ==
    /\ Default
    /\ FFMPEG_AVAILABLE \in BOOLEAN
    /\ PDFIUM_AVAILABLE \in BOOLEAN
    /\ Probed
    /\ disk = FlatDisk

\* ------------------------------------------------------- scan coordinator
\* Dropping a Receiver: the channel's buffered message goes with it.
DropRx(chans, r, why) ==
    IF r = NoReceiver THEN chans
    ELSE [chans EXCEPT ![r].rx = why, ![r].msg = <<>>]

\* scan_selected_folder without selected_files.clear().
scan_selected_folder_KeepsSelection(folder) ==
    /\ error_message' = None
    /\ UNCHANGED selected_files
    /\ image_cache' = [p \in Paths |-> 0]
    /\ IF folder # None
       THEN /\ scans' = Append(DropRx(scans, scan_receiver, "dropped"),
                               [folder |-> folder, recursive |-> recursive',
                                pc |-> "running", rx |-> "held", msg |-> <<>>])
            /\ scan_receiver' = Len(scans) + 1
            /\ is_scanning' = TRUE
            /\ status_message' = <<"Scanning...">>
       ELSE UNCHANGED <<scans, scan_receiver, is_scanning, status_message>>

\* scan_selected_folder that keeps the receiver of a scan still pending.
scan_selected_folder_KeepsReceiver(folder) ==
    /\ error_message' = None
    /\ selected_files' = {}
    /\ image_cache' = [p \in Paths |-> 0]
    /\ IF folder # None
       THEN /\ scans' = Append(scans,
                               [folder |-> folder, recursive |-> recursive',
                                pc |-> "running",
                                rx |-> IF scan_receiver = NoReceiver THEN "held"
                                       ELSE "dropped",
                                msg |-> <<>>])
            /\ scan_receiver' = IF scan_receiver = NoReceiver THEN Len(scans) + 1
                                ELSE scan_receiver
            /\ is_scanning' = TRUE
            /\ status_message' = <<"Scanning...">>
       ELSE UNCHANGED <<scans, scan_receiver, is_scanning, status_message>>

\* scan_selected_folder, called with selected_folder already holding folder.
scan_selected_folder(folder) ==
    /\ error_message' = None
    /\ selected_files' = {}
    /\ image_cache' = [p \in Paths |-> 0]
    /\ IF folder # None
       THEN /\ scans' = Append(DropRx(scans, scan_receiver, "dropped"),
                               [folder |-> folder, recursive |-> recursive',
                                pc |-> "running", rx |-> "held", msg |-> <<>>])
            /\ scan_receiver' = Len(scans) + 1
            /\ is_scanning' = TRUE
            /\ status_message' = <<"Scanning...">>
       ELSE UNCHANGED <<scans, scan_receiver, is_scanning, status_message>>

\* The "Select Folder..." button of update(): enabled while no scan is running.
SelectFolder(folder) ==
    /\ ~is_scanning
    /\ Len(scans) < MaxScans
    /\ selected_folder' = folder
    /\ UNCHANGED recursive
    /\ scan_selected_folder(folder)
    /\ last' = [op |-> "select_folder", arg |-> 0, ret |-> ""]
    /\ UNCHANGED <<files, filtered_files, sort_column, sort_order,
                   filter_text, show_duplicates_only, show_today_only,
                   duplicate_counts, slotVars, flagVars, confirmVars, envVars, tasks>>

\* What a scan thread may meet: either order of the entries, and the read of
\* the folder itself failing or not.
ScanEnvs(folder) ==
    { [order |-> o, fail_dirs |-> fd, bad_entries |-> {}, bad_meta |-> {}] :
        o \in {"forward", "backward"},
        fd \in { {}, {n.id : n \in {m \in disk : m.abs = folder}} } }

\* ScanThread sending snapshots only: a walk that fails sends nothing.
ScanThread_SilentOnError(s) ==
    /\ s \in 1..Len(scans)
    /\ scans[s].pc = "running"
    /\ \E env \in ScanEnvs(scans[s].folder) :
          LET result == scan_folder(disk, scans[s].folder, scans[s].recursive, env)
          IN
          scans' = [scans EXCEPT ![s].pc = "done",
                                 ![s].msg = IF scans[s].rx = "held" /\ result.ok
                                            THEN <<result>>
                                            ELSE <<>>]
    /\ UNCHANGED <<last, appVars, scan_receiver, is_scanning, slotVars, flagVars,
                   confirmVars, envVars,
                   image_cache, tasks>>

\* The thread spawned by scan_selected_folder: walk, sort, send one result.
ScanThread(s) ==
    /\ s \in 1..Len(scans)
    /\ scans[s].pc = "running"
    /\ \E env \in ScanEnvs(scans[s].folder) :
          LET result == scan_folder(disk, scans[s].folder, scans[s].recursive, env)
          IN
          scans' = [scans EXCEPT ![s].pc = "done",
                                 ![s].msg = IF scans[s].rx = "held" THEN <<result>>
                                            ELSE <<>>]
    /\ UNCHANGED <<last, appVars, scan_receiver, is_scanning, slotVars, flagVars,
                   confirmVars, envVars,
                   image_cache, tasks>>

\* check_scan_results without is_scanning = false.
check_scan_results_KeepsScanning ==
    /\ IF scan_receiver # NoReceiver /\ scans[scan_receiver].msg # <<>>
       THEN LET result == Head(scans[scan_receiver].msg)
                sorted == SortBy(sort_column, sort_order, result.files)
            IN  /\ last' = [op |-> "check_scan_results", arg |-> 0,
                            ret |-> IF result.ok THEN "ok" ELSE "err"]
                /\ IF result.ok
                   THEN /\ status_message' = <<"Scanned", Len(result.files)>>
                        /\ files' = sorted
                        /\ selected_files' = {}
                        /\ duplicate_counts' = compute_duplicates(sorted)
                        /\ filtered_files' =
                               apply_filter(sorted, filter_text, show_duplicates_only,
                                            show_today_only, SystemTimeNow)
                        /\ UNCHANGED error_message
                   ELSE /\ error_message' = "Error scanning folder"
                        /\ files' = <<>>
                        /\ filtered_files' = <<>>
                        /\ UNCHANGED <<status_message, selected_files,
                                       duplicate_counts>>
                /\ UNCHANGED is_scanning
                /\ scan_receiver' = NoReceiver
                /\ scans' = DropRx(scans, scan_receiver, "consumed")
       ELSE /\ last' = [op |-> "check_scan_results", arg |-> 0, ret |-> "empty"]
            /\ UNCHANGED <<files, filtered_files, status_message, error_message,
                           selected_files, duplicate_counts, scanVars>>
    /\ UNCHANGED <<selected_folder, recursive, sort_column, sort_order, filter_text,
                   show_duplicates_only, show_today_only, slotVars, flagVars,
                   confirmVars, envVars,
                   image_cache, tasks>>

\* check_scan_results whose error branch leaves filtered_files alone.
check_scan_results_KeepsRows ==
    /\ IF scan_receiver # NoReceiver /\ scans[scan_receiver].msg # <<>>
       THEN LET result == Head(scans[scan_receiver].msg)
                sorted == SortBy(sort_column, sort_order, result.files)
            IN  /\ last' = [op |-> "check_scan_results", arg |-> 0,
                            ret |-> IF result.ok THEN "ok" ELSE "err"]
                /\ IF result.ok
                   THEN /\ status_message' = <<"Scanned", Len(result.files)>>
                        /\ files' = sorted
                        /\ selected_files' = {}
                        /\ duplicate_counts' = compute_duplicates(sorted)
                        /\ filtered_files' =
                               apply_filter(sorted, filter_text, show_duplicates_only,
                                            show_today_only, SystemTimeNow)
                        /\ UNCHANGED error_message
                   ELSE /\ error_message' = "Error scanning folder"
                        /\ files' = <<>>
                        /\ UNCHANGED <<status_message, selected_files,
                                       duplicate_counts, filtered_files>>
                /\ is_scanning' = FALSE
                /\ scan_receiver' = NoReceiver
                /\ scans' = DropRx(scans, scan_receiver, "consumed")
       ELSE /\ last' = [op |-> "check_scan_results", arg |-> 0, ret |-> "empty"]
            /\ UNCHANGED <<files, filtered_files, status_message, error_message,
                           selected_files, duplicate_counts, scanVars>>
    /\ UNCHANGED <<selected_folder, recursive, sort_column, sort_order, filter_text,
                   show_duplicates_only, show_today_only, slotVars, flagVars,
                   confirmVars, envVars,
                   image_cache, tasks>>

\* check_scan_results
check_scan_results ==
    /\ IF scan_receiver # NoReceiver /\ scans[scan_receiver].msg # <<>>
       THEN LET result == Head(scans[scan_receiver].msg)
                sorted == SortBy(sort_column, sort_order, result.files)
            IN  /\ last' = [op |-> "check_scan_results", arg |-> 0,
                            ret |-> IF result.ok THEN "ok" ELSE "err"]
                /\ IF result.ok
                   THEN /\ status_message' = <<"Scanned", Len(result.files)>>
                        /\ files' = sorted
                        /\ selected_files' = {}
                        /\ duplicate_counts' = compute_duplicates(sorted)
                        /\ filtered_files' =
                               apply_filter(sorted, filter_text, show_duplicates_only,
                                            show_today_only, SystemTimeNow)
                        /\ UNCHANGED error_message
                   ELSE /\ error_message' = "Error scanning folder"
                        /\ files' = <<>>
                        /\ filtered_files' = <<>>
                        /\ UNCHANGED <<status_message, selected_files,
                                       duplicate_counts>>
                /\ is_scanning' = FALSE
                /\ scan_receiver' = NoReceiver
                /\ scans' = DropRx(scans, scan_receiver, "consumed")
       ELSE /\ last' = [op |-> "check_scan_results", arg |-> 0, ret |-> "empty"]
            /\ UNCHANGED <<files, filtered_files, status_message, error_message,
                           selected_files, duplicate_counts, scanVars>>
    /\ UNCHANGED <<selected_folder, recursive, sort_column, sort_order, filter_text,
                   show_duplicates_only, show_today_only, slotVars, flagVars,
                   confirmVars, envVars,
                   image_cache, tasks>>

\* The recursive checkbox of update(): enabled while no scan is running; a
\* change re-scans when a folder is selected.
ToggleRecursive ==
    /\ ~is_scanning
    /\ Len(scans) < MaxScans + MaxRescans
    /\ recursive' = ~recursive
    /\ IF selected_folder # None
       THEN scan_selected_folder(selected_folder)
       ELSE UNCHANGED <<error_message, selected_files, image_cache, scans,
                        scan_receiver, is_scanning, status_message>>
    /\ last' = [op |-> "toggle_recursive", arg |-> 0, ret |-> ""]
    /\ UNCHANGED <<selected_folder, files, filtered_files, sort_column, sort_order,
                   filter_text, show_duplicates_only, show_today_only,
                   duplicate_counts, slotVars, flagVars, confirmVars, envVars, tasks>>

\* delete_file, from the context menu of row idx. remove_file fails on a file
\* that is gone and may fail on one that is there. The rows are only drawn
\* while a folder is selected, so the re-scan replaces the "Deleted" status.
delete_file(idx, removed) ==
    /\ files # <<>>
    /\ idx \in 1..Len(filtered_files)
    /\ Len(scans) < MaxScans + MaxRescans
    /\ LET file_path == filtered_files[idx].absolute_path
       IN  IF removed /\ \E n \in disk : n.abs = file_path
           THEN /\ disk' = {n \in disk : n.abs # file_path}
                /\ UNCHANGED recursive
                /\ scan_selected_folder(selected_folder)
                /\ last' = [op |-> "delete_file", arg |-> idx, ret |-> "ok"]
           ELSE /\ error_message' = "Delete failed"
                /\ last' = [op |-> "delete_file", arg |-> idx, ret |-> "err"]
                /\ UNCHANGED <<disk, recursive, selected_files, image_cache,
                               scanVars, status_message>>
    /\ UNCHANGED <<selected_folder, files, filtered_files, sort_column, sort_order,
                   filter_text, show_duplicates_only, show_today_only,
                   duplicate_counts, slotVars, flagVars, confirmVars, walk_out, today_out,
                   backendVars, renameVars,
                   tasks>>

\* ------------------------------------------------------------ view engine
\* ApplyFilter with the duplicates counted over the rows left visible.
ApplyFilter_CountsVisible(fs) ==
    /\ selected_files' = {}
    /\ filtered_files' = apply_filter(fs, filter_text', show_duplicates_only',
                                      show_today_only', SystemTimeNow)
    /\ duplicate_counts' = compute_duplicates(filtered_files')

\* apply_filter on the snapshot fs, with the filter settings of the next state.
ApplyFilter(fs) ==
    /\ selected_files' = {}
    /\ duplicate_counts' = compute_duplicates(fs)
    /\ filtered_files' = apply_filter(fs, filter_text', show_duplicates_only',
                                      show_today_only', SystemTimeNow)

\* What no handler of the view engine touches.
viewFrame == <<selected_folder, status_message, error_message, recursive, scanVars,
               slotVars, flagVars, confirmVars, envVars, image_cache, tasks>>

SortColumns == {"Name", "Extension", "Size", "Date", "Path"}

\* toggle_sort without the call of sort_files.
toggle_sort_KeepsOrder(column) ==
    /\ files # <<>>
    /\ IF sort_column = column
       THEN /\ sort_order' = IF sort_order = "Ascending" THEN "Descending"
                             ELSE "Ascending"
            /\ UNCHANGED sort_column
       ELSE /\ sort_column' = column
            /\ sort_order' = "Ascending"
    /\ UNCHANGED <<files, filter_text, show_duplicates_only, show_today_only>>
    /\ ApplyFilter(files)
    /\ last' = [op |-> "toggle_sort", arg |-> 0, ret |-> column]
    /\ UNCHANGED viewFrame

\* toggle_sort that sorts files and leaves filtered_files as it was.
toggle_sort_NoRefilter(column) ==
    /\ files # <<>>
    /\ IF sort_column = column
       THEN /\ sort_order' = IF sort_order = "Ascending" THEN "Descending"
                             ELSE "Ascending"
            /\ UNCHANGED sort_column
       ELSE /\ sort_column' = column
            /\ sort_order' = "Ascending"
    /\ files' = SortBy(sort_column', sort_order', files)
    /\ selected_files' = {}
    /\ duplicate_counts' = compute_duplicates(files')
    /\ UNCHANGED <<filter_text, show_duplicates_only, show_today_only,
                   filtered_files>>
    /\ last' = [op |-> "toggle_sort", arg |-> 0, ret |-> column]
    /\ UNCHANGED viewFrame

\* toggle_sort keeping the direction when the column changes.
toggle_sort_KeepsDirection(column) ==
    /\ files # <<>>
    /\ IF sort_column = column
       THEN /\ sort_order' = IF sort_order = "Ascending" THEN "Descending"
                             ELSE "Ascending"
            /\ UNCHANGED sort_column
       ELSE /\ sort_column' = column
            /\ UNCHANGED sort_order
    /\ files' = SortBy(sort_column', sort_order', files)
    /\ UNCHANGED <<filter_text, show_duplicates_only, show_today_only>>
    /\ ApplyFilter(files')
    /\ last' = [op |-> "toggle_sort", arg |-> 0, ret |-> column]
    /\ UNCHANGED viewFrame

\* toggle_sort(column), from a click on a column header: the headers, like the
\* filter controls and the rows, are drawn while files is not empty.
toggle_sort(column) ==
    /\ files # <<>>
    /\ IF sort_column = column
       THEN /\ sort_order' = IF sort_order = "Ascending" THEN "Descending"
                             ELSE "Ascending"
            /\ UNCHANGED sort_column
       ELSE /\ sort_column' = column
            /\ sort_order' = "Ascending"
    /\ files' = SortBy(sort_column', sort_order', files)
    /\ UNCHANGED <<filter_text, show_duplicates_only, show_today_only>>
    /\ ApplyFilter(files')
    /\ last' = [op |-> "toggle_sort", arg |-> 0, ret |-> column]
    /\ UNCHANGED viewFrame

\* Texts typed into the filter box: "A" and "sub".
FilterTexts == { <<65>>, <<115,117,98>> }

\* An edit of the filter box.
FilterChanged(text) ==
    /\ files # <<>>
    /\ text # filter_text
    /\ filter_text' = text
    /\ UNCHANGED <<files, sort_column, sort_order, show_duplicates_only,
                   show_today_only>>
    /\ ApplyFilter(files)
    /\ last' = [op |-> "filter_changed", arg |-> 0, ret |-> ""]
    /\ UNCHANGED viewFrame

\* The "Clear" button.
ClearFilter ==
    /\ files # <<>>
    /\ filter_text' = <<>>
    /\ UNCHANGED <<files, sort_column, sort_order, show_duplicates_only,
                   show_today_only>>
    /\ ApplyFilter(files)
    /\ last' = [op |-> "clear_filter", arg |-> 0, ret |-> ""]
    /\ UNCHANGED viewFrame

\* The "Show duplicates only" checkbox.
ToggleDuplicatesOnly ==
    /\ files # <<>>
    /\ show_duplicates_only' = ~show_duplicates_only
    /\ UNCHANGED <<files, sort_column, sort_order, filter_text, show_today_only>>
    /\ ApplyFilter(files)
    /\ last' = [op |-> "toggle_duplicates_only", arg |-> 0, ret |-> ""]
    /\ UNCHANGED viewFrame

\* The "Show today only" checkbox.
ToggleTodayOnly ==
    /\ files # <<>>
    /\ show_today_only' = ~show_today_only
    /\ UNCHANGED <<files, sort_column, sort_order, filter_text,
                   show_duplicates_only>>
    /\ ApplyFilter(files)
    /\ last' = [op |-> "toggle_today_only", arg |-> 0, ret |-> ""]
    /\ UNCHANGED viewFrame

\* toggle_selection(idx), from the checkbox of row idx.
toggle_selection(idx) ==
    /\ files # <<>>
    /\ idx \in 1..Len(filtered_files)
    /\ selected_files' = IF idx \in selected_files THEN selected_files \ {idx}
                         ELSE selected_files \cup {idx}
    /\ last' = [op |-> "toggle_selection", arg |-> idx, ret |-> ""]
    /\ UNCHANGED <<files, filtered_files, sort_column, sort_order, filter_text,
                   show_duplicates_only, show_today_only, duplicate_counts>>
    /\ UNCHANGED viewFrame

\* --------------------------------------------------------- file operations
\* The subsets of S of at most k elements.
RECURSIVE SubsetsUpTo(_, _)
SubsetsUpTo(S, k) ==
    IF k = 0 THEN {{}}
    ELSE LET smaller == SubsetsUpTo(S, k - 1)
         IN  smaller \cup {p \cup {x} : p \in smaller, x \in S}

\* select_all / deselect_all, from the checkbox of the table header: it shows
\* checked when every row is selected.
HeaderCheckbox ==
    /\ files # <<>>
    /\ LET all_selected == /\ filtered_files # <<>>
                            /\ Cardinality(selected_files) = Len(filtered_files)
       IN  selected_files' = IF all_selected THEN {}
                             ELSE selected_files \cup (1..Len(filtered_files))
    /\ last' = [op |-> "header_checkbox", arg |-> 0, ret |-> ""]
    /\ UNCHANGED <<files, filtered_files, sort_column, sort_order, filter_text,
                   show_duplicates_only, show_today_only, duplicate_counts>>
    /\ UNCHANGED viewFrame

\* The (absolute_path, full_name) pairs of the selected rows that exist
\* (filtered_files.get(idx)), in ascending or descending order of the index:
\* a HashSet is iterated in no particular order.
SelectedPaths(order) ==
    LET Picked(k) == k \in selected_files
        idxs == SelectSeq([k \in 1..Len(filtered_files) |-> k], Picked)
        asc == [i \in 1..Len(idxs) |->
                   [path |-> filtered_files[idxs[i]].absolute_path,
                    name |-> filtered_files[idxs[i]].full_name]]
    IN  IF order = "forward" THEN asc ELSE Reverse(asc)

\* What no file operation touches.
opsFrame == <<selected_folder, files, filtered_files, recursive, sort_column,
              sort_order, filter_text, show_duplicates_only, show_today_only,
              duplicate_counts, slotVars, flagVars, walk_out, today_out, backendVars, renameVars, tasks>>

\* path names a file of fsys.
FileExists(fsys, path) == \E n \in fsys : n.abs = path /\ n.kind = "file"

\* fs::remove_file(path), succeeding.
RemoveFile(fsys, path) == {n \in fsys : n.abs # path}

\* prepare_bulk_delete, from the "Delete Selected" button: enabled while
\* something is selected.
prepare_bulk_delete ==
    /\ files # <<>>
    /\ selected_files # {}
    /\ pending_delete_paths' = SelectedPaths("forward")
    /\ show_delete_confirm' = (show_delete_confirm \/ pending_delete_paths' # <<>>)
    /\ last' = [op |-> "prepare_bulk_delete", arg |-> Len(pending_delete_paths'),
                ret |-> ""]
    /\ UNCHANGED <<status_message, error_message, selected_files, image_cache,
                   scanVars, disk>>
    /\ UNCHANGED opsFrame

\* cancel_bulk_delete, from the "Cancel" button of the confirmation.
cancel_bulk_delete ==
    /\ show_delete_confirm
    /\ pending_delete_paths' = <<>>
    /\ show_delete_confirm' = FALSE
    /\ last' = [op |-> "cancel_bulk_delete", arg |-> 0, ret |-> ""]
    /\ UNCHANGED <<status_message, error_message, selected_files, image_cache,
                   scanVars, disk>>
    /\ UNCHANGED opsFrame

\* The files of pending left on the disk once remove_file has succeeded on
\* the positions of removed.
RECURSIVE RemoveAll(_, _, _, _)
RemoveAll(fsys, pending, removed, k) ==
    IF k > Len(pending) THEN fsys
    ELSE RemoveAll(IF k \in removed THEN RemoveFile(fsys, pending[k].path) ELSE fsys,
                   pending, removed, k + 1)

\* The ways remove_file may go over the pending files: it fails on a file
\* that is gone, and on at most MaxFailures of the files that are there.
RemovalOutcomes ==
    LET there == {k \in 1..Len(pending_delete_paths) :
                     FileExists(disk, pending_delete_paths[k].path)}
    IN  {there \ failing : failing \in SubsetsUpTo(there, MaxFailures)}

\* execute_bulk_delete, from the "Delete" button of the confirmation;
\* remove_file succeeds on the positions of removed. The status and error
\* messages it composes are replaced by scan_selected_folder before it
\* returns: rows exist only while a folder is selected.
execute_bulk_delete(removed) ==
    /\ show_delete_confirm
    /\ Len(scans) < MaxScans + MaxRescans
    /\ removed \in RemovalOutcomes
    /\ LET deleted_count == Cardinality(removed)
           failed_count == Len(pending_delete_paths) - deleted_count
       IN  /\ disk' = RemoveAll(disk, pending_delete_paths, removed, 1)
           /\ last' = [op |-> "execute_bulk_delete",
                       arg |-> deleted_count + failed_count,
                       ret |-> IF failed_count = 0 THEN "ok" ELSE "failed"]
    /\ pending_delete_paths' = <<>>
    /\ show_delete_confirm' = FALSE
    /\ UNCHANGED recursive
    /\ scan_selected_folder(selected_folder)
    /\ UNCHANGED <<selected_folder, files, filtered_files, sort_column, sort_order,
                   filter_text, show_duplicates_only, show_today_only,
                   duplicate_counts, slotVars, flagVars, walk_out, today_out, backendVars, renameVars,
                   tasks>>

\* dest_folder.join(file_name), for the folder /dest.
DestPath(file_name) ==
    CASE file_name = <<97,46,116,120,116>> -> "/dest/a.txt"
      [] file_name = <<98,46,84,88,84>> -> "/dest/b.TXT"
      [] file_name = <<66,46,116,120,116>> -> "/dest/B.txt"
      [] file_name = <<99,46,116,120,116>> -> "/dest/c.txt"

\* fs::rename or fs::copy of node n into /dest, succeeding: a file of the same
\* name already there is replaced.
WriteDest(fsys, n) ==
    {m \in fsys : m.abs # DestPath(n.name)}
    \cup {[id |-> 10 + n.id, parent |-> 9, kind |-> "file", name |-> n.name,
           abs |-> DestPath(n.name), size |-> n.size, mtime |-> n.mtime]}

\* How the move of one file may go: rename succeeds; rename fails and copy
\* fails; rename fails, copy succeeds and remove_file fails; rename fails and
\* copy and remove_file succeed.
MoveOutcomes == {"renamed", "copy_failed", "partial", "copied"}

\* The disk after the move of the file at path has gone as outcome says.
MoveOne(fsys, path, outcome) ==
    IF outcome = "copy_failed" THEN fsys
    ELSE LET n == CHOOSE m \in fsys : m.abs = path
         IN  IF outcome = "partial" THEN WriteDest(fsys, n)
             ELSE WriteDest(RemoveFile(fsys, path), n)

\* A file that is gone can be neither renamed nor copied.
MayGo(fsys, path, outcome) == FileExists(fsys, path) \/ outcome = "copy_failed"

\* move_file, from the context menu of row idx, with /dest picked in the
\* dialog. On the "partial" branch the error message is set and then cleared
\* by scan_selected_folder, like the status of the two "Moved" branches.
move_file(idx, outcome) ==
    /\ files # <<>>
    /\ idx \in 1..Len(filtered_files)
    /\ Len(scans) < MaxScans + MaxRescans
    /\ LET file_path == filtered_files[idx].absolute_path
       IN  /\ MayGo(disk, file_path, outcome)
           /\ disk' = MoveOne(disk, file_path, outcome)
    /\ last' = [op |-> "move_file", arg |-> 1, ret |-> outcome]
    /\ IF outcome = "copy_failed"
       THEN /\ error_message' = "Move failed"
            /\ UNCHANGED <<status_message, selected_files, image_cache, scanVars,
                           recursive>>
       ELSE /\ UNCHANGED recursive
            /\ scan_selected_folder(selected_folder)
    /\ UNCHANGED <<selected_folder, files, filtered_files, sort_column, sort_order,
                   filter_text, show_duplicates_only, show_today_only,
                   duplicate_counts, confirmVars, slotVars, flagVars, walk_out,
                   today_out, backendVars, renameVars, tasks>>

\* The disk after moving the files of items one after the other.
RECURSIVE MoveAll(_, _, _, _)
MoveAll(fsys, items, outcomes, k) ==
    IF k > Len(items) THEN fsys
    ELSE MoveAll(MoveOne(fsys, items[k].path, outcomes[k]), items, outcomes, k + 1)

\* The ways the moves of items may go: at most MaxFailures of the files that
\* are there meet a failing rename.
BulkOutcomes(items) ==
    LET there == {k \in 1..Len(items) : FileExists(disk, items[k].path)}
    IN  {o \in [1..Len(items) -> MoveOutcomes] :
            /\ \A k \in (1..Len(items)) \ there : o[k] = "copy_failed"
            /\ Cardinality({k \in there : o[k] # "renamed"}) <= MaxFailures}

\* move_selected_files, from the "Move Selected" button, with /dest picked in
\* the dialog. rename(..).or_else(copy, then remove_file) is Ok for "renamed"
\* and "copied" and Err for the other two. The status and error messages it
\* composes are replaced by scan_selected_folder before it returns.
move_selected_files(order, outcomes) ==
    /\ files # <<>>
    /\ selected_files # {}
    /\ Len(scans) < MaxScans + MaxRescans
    /\ LET files_to_move == SelectedPaths(order)
           moved_count == Cardinality({k \in 1..Len(files_to_move) :
                                          outcomes[k] \in {"renamed", "copied"}})
           failed_count == Len(files_to_move) - moved_count
       IN  /\ outcomes \in BulkOutcomes(files_to_move)
           /\ disk' = MoveAll(disk, files_to_move, outcomes, 1)
           /\ last' = [op |-> "move_selected_files",
                       arg |-> moved_count + failed_count,
                       ret |-> IF \E k \in 1..Len(files_to_move) :
                                     outcomes[k] = "partial" THEN "partial"
                               ELSE IF failed_count = 0 THEN "ok" ELSE "failed"]
    /\ UNCHANGED recursive
    /\ scan_selected_folder(selected_folder)
    /\ UNCHANGED <<selected_folder, files, filtered_files, sort_column, sort_order,
                   filter_text, show_duplicates_only, show_today_only,
                   duplicate_counts, confirmVars, slotVars, flagVars, walk_out,
                   today_out, backendVars, renameVars, tasks>>

\* ------------------------------------------------------- preview pipeline
is_ffmpeg_ready == FFMPEG_AVAILABLE

is_pdfium_ready == PDFIUM_AVAILABLE

\* TimedOut with >= in place of >.
TimedOut_AtLeast(start_time) == start_time >= TimeoutSecs

\* start_time.elapsed() > Duration::from_secs(10)
TimedOut(start_time) == start_time > TimeoutSecs

\* StartBackgroundLoading with the earlier receiver kept alive instead of being
\* replaced by the new one.
StartBackgroundLoading_KeepsOld(abs_path, extension) ==
    /\ Len(tasks) < MaxTasks
    /\ image_receiver' = Len(tasks) + 1
    /\ image_loading_path' = abs_path
    /\ image_loading_start' = 0
    /\ tasks' = Append(tasks,
                       [path |-> abs_path,
                        is_video |-> is_video_file(extension),
                        is_pdf |-> is_pdf_file(extension),
                        pc |-> "running", rx |-> "held", msg |-> <<>>])

\* StartBackgroundLoading without the assignment to image_loading_path.
StartBackgroundLoading_NoPath(abs_path, extension) ==
    /\ Len(tasks) < MaxTasks
    /\ image_receiver' = Len(tasks) + 1
    /\ UNCHANGED image_loading_path
    /\ image_loading_start' = 0
    /\ tasks' = Append(DropRx(tasks, image_receiver, "replaced"),
                       [path |-> abs_path,
                        is_video |-> is_video_file(extension),
                        is_pdf |-> is_pdf_file(extension),
                        pc |-> "running", rx |-> "held", msg |-> <<>>])

\* The part of load_hover_preview from "Start background loading" on: a new
\* channel replaces the slot's receiver and a thread is spawned for abs_path.
StartBackgroundLoading(abs_path, extension) ==
    /\ Len(tasks) < MaxTasks
    /\ image_receiver' = Len(tasks) + 1
    /\ image_loading_path' = abs_path
    /\ image_loading_start' = 0
    /\ tasks' = Append(DropRx(tasks, image_receiver, "replaced"),
                       [path |-> abs_path,
                        is_video |-> is_video_file(extension),
                        is_pdf |-> is_pdf_file(extension),
                        pc |-> "running", rx |-> "held", msg |-> <<>>])

\* HoverReturnsEarly that also returns whenever any load is in progress.
HoverReturnsEarly_WhenBusy(idx) ==
    \/ idx > Len(filtered_files)
    \/ ~is_previewable(filtered_files[idx].extension)
    \/ image_cache[filtered_files[idx].absolute_path] # 0
    \/ image_loading_path # None
    \/ is_video_file(filtered_files[idx].extension) /\ ~is_ffmpeg_ready
    \/ is_pdf_file(filtered_files[idx].extension) /\ ~is_pdfium_ready

\* HoverReturnsEarly without the "already in cache" return.
HoverReturnsEarly_NoCacheCheck(idx) ==
    \/ idx > Len(filtered_files)
    \/ ~is_previewable(filtered_files[idx].extension)
    \/ image_loading_path = filtered_files[idx].absolute_path
    \/ is_video_file(filtered_files[idx].extension) /\ ~is_ffmpeg_ready
    \/ is_pdf_file(filtered_files[idx].extension) /\ ~is_pdfium_ready

\* HoverReturnsEarly without the "already loading this file" return.
HoverReturnsEarly_NoSameCheck(idx) ==
    \/ idx > Len(filtered_files)
    \/ ~is_previewable(filtered_files[idx].extension)
    \/ image_cache[filtered_files[idx].absolute_path] # 0
    \/ is_video_file(filtered_files[idx].extension) /\ ~is_ffmpeg_ready
    \/ is_pdf_file(filtered_files[idx].extension) /\ ~is_pdfium_ready

\* HoverReturnsEarly without the two backend-readiness returns.
HoverReturnsEarly_NoBackendCheck(idx) ==
    \/ idx > Len(filtered_files)
    \/ ~is_previewable(filtered_files[idx].extension)
    \/ image_cache[filtered_files[idx].absolute_path] # 0
    \/ image_loading_path = filtered_files[idx].absolute_path

\* The early returns of load_hover_preview for row idx: TRUE when no load starts.
HoverReturnsEarly(idx) ==
    \/ idx > Len(filtered_files)
    \/ ~is_previewable(filtered_files[idx].extension)
    \/ image_cache[filtered_files[idx].absolute_path] # 0
    \/ image_loading_path = filtered_files[idx].absolute_path
    \/ is_video_file(filtered_files[idx].extension) /\ ~is_ffmpeg_ready
    \/ is_pdf_file(filtered_files[idx].extension) /\ ~is_pdfium_ready

\* load_hover_preview(idx)
load_hover_preview(idx) ==
    /\ IF HoverReturnsEarly(idx)
       THEN /\ last' = [op |-> "load_hover_preview", arg |-> idx, ret |-> "return"]
            /\ UNCHANGED <<slotVars, tasks>>
       ELSE /\ last' = [op |-> "load_hover_preview", arg |-> idx, ret |-> "spawn"]
            /\ StartBackgroundLoading(filtered_files[idx].absolute_path,
                                      filtered_files[idx].extension)
    /\ UNCHANGED <<appVars, scanVars, flagVars, confirmVars, envVars, image_cache>>

\* The thread spawned by load_hover_preview. got_image: the backend yielded
\* bytes and image::load_from_memory decoded them; only then is a message sent,
\* and the send fails silently when the receiver is gone.
PreviewThread(t, got_image) ==
    /\ t \in 1..Len(tasks)
    /\ tasks[t].pc = "running"
    /\ tasks' = [tasks EXCEPT
                   ![t].pc = IF got_image THEN "sent" ELSE "failed",
                   ![t].msg = IF got_image /\ tasks[t].rx = "held"
                              THEN <<[path |-> tasks[t].path, data |-> t]>>
                              ELSE <<>>]
    /\ UNCHANGED <<last, appVars, scanVars, slotVars, flagVars, confirmVars, envVars,
                   image_cache>>

\* check_image_loads with try_recv tried before the timeout test.
check_image_loads_RecvFirst ==
    /\ IF image_receiver # NoReceiver /\ tasks[image_receiver].msg # <<>>
       THEN LET m == Head(tasks[image_receiver].msg)
            IN  /\ last' = [op |-> "check_image_loads", arg |-> 0,
                            ret |-> "received"]
                /\ image_cache' = [image_cache EXCEPT ![m.path] = m.data]
                /\ image_loading_path' = None
                /\ image_receiver' = NoReceiver
                /\ image_loading_start' = NoInstant
                /\ tasks' = DropRx(tasks, image_receiver, "consumed")
       ELSE IF image_loading_start # NoInstant /\ TimedOut(image_loading_start)
       THEN /\ last' = [op |-> "check_image_loads", arg |-> 0, ret |-> "timeout"]
            /\ image_loading_path' = None
            /\ image_receiver' = NoReceiver
            /\ image_loading_start' = NoInstant
            /\ tasks' = DropRx(tasks, image_receiver, "timedout")
            /\ UNCHANGED image_cache
       ELSE /\ last' = [op |-> "check_image_loads", arg |-> 0, ret |-> "empty"]
            /\ UNCHANGED <<slotVars, tasks, image_cache>>
    /\ UNCHANGED <<appVars, scanVars, flagVars, confirmVars, envVars>>

\* check_image_loads that forgets to clear image_loading_path after a receive.
check_image_loads_KeepsLoading ==
    /\ IF image_loading_start # NoInstant /\ TimedOut(image_loading_start)
       THEN /\ last' = [op |-> "check_image_loads", arg |-> 0, ret |-> "timeout"]
            /\ image_loading_path' = None
            /\ image_receiver' = NoReceiver
            /\ image_loading_start' = NoInstant
            /\ tasks' = DropRx(tasks, image_receiver, "timedout")
            /\ UNCHANGED image_cache
       ELSE IF image_receiver # NoReceiver /\ tasks[image_receiver].msg # <<>>
       THEN LET m == Head(tasks[image_receiver].msg)
            IN  /\ last' = [op |-> "check_image_loads", arg |-> 0,
                            ret |-> "received"]
                /\ image_cache' = [image_cache EXCEPT ![m.path] = m.data]
                /\ UNCHANGED image_loading_path
                /\ image_receiver' = NoReceiver
                /\ image_loading_start' = NoInstant
                /\ tasks' = DropRx(tasks, image_receiver, "consumed")
       ELSE /\ last' = [op |-> "check_image_loads", arg |-> 0, ret |-> "empty"]
            /\ UNCHANGED <<slotVars, tasks, image_cache>>
    /\ UNCHANGED <<appVars, scanVars, flagVars, confirmVars, envVars>>

\* check_image_loads that reports a timeout through error_message.
check_image_loads_TimeoutError ==
    /\ IF image_loading_start # NoInstant /\ TimedOut(image_loading_start)
       THEN /\ last' = [op |-> "check_image_loads", arg |-> 0, ret |-> "timeout"]
            /\ image_loading_path' = None
            /\ image_receiver' = NoReceiver
            /\ image_loading_start' = NoInstant
            /\ tasks' = DropRx(tasks, image_receiver, "timedout")
            /\ error_message' = "Preview timed out"
            /\ UNCHANGED image_cache
       ELSE IF image_receiver # NoReceiver /\ tasks[image_receiver].msg # <<>>
       THEN LET m == Head(tasks[image_receiver].msg)
            IN  /\ last' = [op |-> "check_image_loads", arg |-> 0,
                            ret |-> "received"]
                /\ image_cache' = [image_cache EXCEPT ![m.path] = m.data]
                /\ image_loading_path' = None
                /\ image_receiver' = NoReceiver
                /\ image_loading_start' = NoInstant
                /\ tasks' = DropRx(tasks, image_receiver, "consumed")
                /\ UNCHANGED error_message
       ELSE /\ last' = [op |-> "check_image_loads", arg |-> 0, ret |-> "empty"]
            /\ UNCHANGED <<slotVars, tasks, image_cache, error_message>>
    /\ UNCHANGED <<selected_folder, files, filtered_files, status_message,
                   recursive, sort_column, sort_order, filter_text,
                   show_duplicates_only, show_today_only, duplicate_counts,
                   selected_files, scanVars, flagVars, confirmVars, envVars>>

\* check_image_loads
check_image_loads ==
    /\ IF image_loading_start # NoInstant /\ TimedOut(image_loading_start)
       THEN /\ last' = [op |-> "check_image_loads", arg |-> 0, ret |-> "timeout"]
            /\ image_loading_path' = None
            /\ image_receiver' = NoReceiver
            /\ image_loading_start' = NoInstant
            /\ tasks' = DropRx(tasks, image_receiver, "timedout")
            /\ UNCHANGED image_cache
       ELSE IF image_receiver # NoReceiver /\ tasks[image_receiver].msg # <<>>
       THEN LET m == Head(tasks[image_receiver].msg)
            IN  /\ last' = [op |-> "check_image_loads", arg |-> 0,
                            ret |-> "received"]
                /\ image_cache' = [image_cache EXCEPT ![m.path] = m.data]
                /\ image_loading_path' = None
                /\ image_receiver' = NoReceiver
                /\ image_loading_start' = NoInstant
                /\ tasks' = DropRx(tasks, image_receiver, "consumed")
       ELSE /\ last' = [op |-> "check_image_loads", arg |-> 0, ret |-> "empty"]
            /\ UNCHANGED <<slotVars, tasks, image_cache>>
    /\ UNCHANGED <<appVars, scanVars, flagVars, confirmVars, envVars>>

\* Time passes on the monotonic clock: the Instant held gets older. Once it is
\* past the timeout, more time makes no difference to the code.
Tick ==
    /\ image_loading_start # NoInstant
    /\ ~TimedOut(image_loading_start)
    /\ image_loading_start' = image_loading_start + TickSecs
    /\ UNCHANGED <<last, appVars, scanVars, image_receiver, image_loading_path,
                   flagVars, confirmVars, envVars, image_cache, tasks>>

Next ==
    \/ \E folder \in Folders : SelectFolder(folder)
    \/ \E s \in 1..MaxScans : ScanThread(s)
    \/ check_scan_results
    \/ \E idx \in HoverIdx : load_hover_preview(idx)
    \/ \E t \in 1..MaxTasks, got_image \in BOOLEAN : PreviewThread(t, got_image)
    \/ check_image_loads
    \/ Tick

Spec == Init /\ [][Next]_vars

\* ------------------------------------- scan coordinator and view engine
\* The application on /dir of TreeDisk, without the hover previews.
InitView ==
    /\ Default
    /\ FFMPEG_AVAILABLE = FALSE
    /\ PDFIUM_AVAILABLE = FALSE
    /\ Probed
    /\ disk = TreeDisk

\* Rows the user clicks on.
RowIdx == 1..4

\* The scan coordinator: scans started by the folder button, the recursive
\* checkbox and deletions, racing with the scan threads and the polls.
NextScan ==
    \/ \E folder \in Folders : SelectFolder(folder)
    \/ ToggleRecursive
    \/ \E s \in 1..(MaxScans + MaxRescans) : ScanThread(s)
    \/ check_scan_results
    \/ \E idx \in RowIdx : toggle_selection(idx)
    \/ \E idx \in RowIdx, removed \in BOOLEAN : delete_file(idx, removed)

ScanSpec == InitView /\ [][NextScan]_vars

\* The folder of the liveness runs: /dir holding a.txt alone.
ScanLiveDisk == { n \in TreeDisk : n.id \in {0, 1} }

InitScanLive ==
    /\ Default
    /\ FFMPEG_AVAILABLE = FALSE
    /\ PDFIUM_AVAILABLE = FALSE
    /\ Probed
    /\ disk = ScanLiveDisk

\* The scan coordinator with its scheduling: every scan thread that is running
\* gets to finish its walk (the walker terminates), and update keeps being
\* called, so a message waiting in the channel is received.
ScanLiveSpec ==
    /\ InitScanLive
    /\ [][NextScan]_vars
    /\ \A s \in 1..(MaxScans + MaxRescans) : WF_vars(ScanThread(s))
    /\ WF_vars(check_scan_results)

\* The view engine: sort and filter changes on the snapshots delivered.
NextView ==
    \/ \E folder \in Folders : SelectFolder(folder)
    \/ ToggleRecursive
    \/ \E s \in 1..(MaxScans + MaxRescans) : ScanThread(s)
    \/ check_scan_results
    \/ \E column \in SortColumns : toggle_sort(column)
    \/ \E text \in FilterTexts : FilterChanged(text)
    \/ ClearFilter
    \/ ToggleDuplicatesOnly
    \/ ToggleTodayOnly

ViewSpec == InitView /\ [][NextView]_vars

\* The file operations on the rows of a non-recursive scan: selection, bulk
\* delete behind its confirmation, single and bulk move, racing with the scan
\* threads and the polls.
InitFileOps ==
    /\ Default
    /\ FFMPEG_AVAILABLE = FALSE
    /\ PDFIUM_AVAILABLE = FALSE
    /\ Probed
    /\ disk = MoveDisk

NextFileOps ==
    \/ \E folder \in Folders : SelectFolder(folder)
    \/ \E s \in 1..(MaxScans + MaxRescans) : ScanThread(s)
    \/ check_scan_results
    \/ \E idx \in RowIdx : toggle_selection(idx)
    \/ HeaderCheckbox
    \/ prepare_bulk_delete
    \/ cancel_bulk_delete
    \/ \E removed \in SUBSET RowIdx : execute_bulk_delete(removed)
    \/ \E idx \in RowIdx, outcome \in MoveOutcomes : move_file(idx, outcome)
    \/ \E order \in {"forward", "backward"} :
          \E outcomes \in BulkOutcomes(SelectedPaths(order)) :
             move_selected_files(order, outcomes)

FileOpsSpec == InitFileOps /\ [][NextFileOps]_vars

\* ------------------------------------------------- the walker on its own
\* scan_folder as a function of the tree, its arguments and the failures met.
InitWalk ==
    /\ Default
    /\ FFMPEG_AVAILABLE = FALSE
    /\ PDFIUM_AVAILABLE = FALSE
    /\ Probed
    /\ disk \in WalkTrees

\* The I/O failures a walk of tree fsys may meet: read_dir failing on a
\* directory, the iterator failing at an entry, metadata() failing on a file.
WalkEnvs(fsys) ==
    LET faults == ({"fail_dir"} \X {n.id : n \in {m \in fsys : m.kind = "dir"}})
                  \cup ({"bad_entry"} \X {n.id : n \in {m \in fsys : m.parent # NoParent}})
                  \cup ({"bad_meta"} \X {n.id : n \in {m \in fsys : m.kind = "file"}})
        Of(F, kind) == {f[2] : f \in {g \in F : g[1] = kind}}
    IN  { [order |-> o, fail_dirs |-> Of(F, "fail_dir"),
           bad_entries |-> Of(F, "bad_entry"), bad_meta |-> Of(F, "bad_meta")] :
            o \in {"forward", "backward"}, F \in SubsetsUpTo(faults, MaxFailures) }

Walk(path, rec, env) ==
    /\ ~walk_out.called
    /\ walk_out' = [called |-> TRUE, path |-> path, recursive |-> rec, env |-> env,
                    result |-> scan_folder(disk, path, rec, env)]
    /\ UNCHANGED <<appVars, scanVars, slotVars, flagVars, confirmVars, disk,
                   today_out, backendVars, renameVars, image_cache, tasks, last>>

NextWalk ==
    \E path \in WalkPaths, rec \in BOOLEAN, env \in WalkEnvs(disk) :
        Walk(path, rec, env)

WalkSpec == InitWalk /\ [][NextWalk]_vars

\* ------------------------------------------------ the today filter on its own
\* The today stage of apply_filter as a function of the file time, the wall
\* clock and the time zone of the process.
InitToday ==
    /\ Default
    /\ FFMPEG_AVAILABLE = FALSE
    /\ PDFIUM_AVAILABLE = FALSE
    /\ Probed
    /\ disk = TreeDisk

\* Times of day: midnight, one second and one hour past it, noon, 23:00 and
\* the last second of the day.
DaySecs == {0, 1, 3600, 43200, 82800, 86399}

\* Readings of SystemTime::now(), in seconds since the epoch (UTC).
NowInstants == {d * SecsPerDay + s : d \in 1..MaxDays, s \in DaySecs}

\* Modification times of a file.
FileInstants == {d * SecsPerDay + s : d \in 0..(MaxDays + 1), s \in DaySecs}

\* Offsets of local time from UTC, in seconds: UTC-5, UTC, UTC+1, UTC+9.
UtcOffsets == {0 - 18000, 0, 3600, 32400}

\* A record of the snapshot with the modification time set.
FileModifiedAt(timestamp) ==
    [scan_folder(TreeDisk, "/dir", FALSE,
                 [order |-> "forward", fail_dirs |-> {}, bad_entries |-> {},
                  bad_meta |-> {}]).files[1]
        EXCEPT !.modified_timestamp = timestamp]

\* apply_filter with only the today toggle on, over a one-record snapshot.
\* The process runs in a time zone utc_offset seconds east of UTC; is_today
\* reads the clock and nothing else.
TodayFilter(timestamp, now_secs, utc_offset) ==
    /\ ~today_out.called
    /\ today_out' = [called |-> TRUE, timestamp |-> timestamp,
                      now_secs |-> now_secs, utc_offset |-> utc_offset,
                      rows |-> apply_filter(<<FileModifiedAt(timestamp)>>, <<>>,
                                            FALSE, TRUE, now_secs)]
    /\ UNCHANGED <<appVars, scanVars, slotVars, flagVars, confirmVars, disk,
                   walk_out, backendVars, renameVars, image_cache, tasks, last>>

NextToday ==
    \E timestamp \in FileInstants, now_secs \in NowInstants,
       utc_offset \in UtcOffsets :
        TodayFilter(timestamp, now_secs, utc_offset)

TodaySpec == InitToday /\ [][NextToday]_vars

\* --------------------------------------------------------------- CSV export
\* /dir holding files whose names need quoting in a CSV field: a comma, a
\* double quote, a line feed; and one plain name.
CsvDisk ==
    { [id |-> 0, parent |-> NoParent, kind |-> "dir", name |-> <<>>,
       abs |-> "/dir", size |-> 0, mtime |-> 0],
      [id |-> 1, parent |-> 0, kind |-> "file", name |-> <<97,44,98,46,116,120,116>>,
       abs |-> "/dir/a,b.txt", size |-> 10, mtime |-> 100],
      [id |-> 2, parent |-> 0, kind |-> "file", name |-> <<113,34,46,99,115,118>>,
       abs |-> "/dir/q\".csv", size |-> 0, mtime |-> 200],
      [id |-> 3, parent |-> 0, kind |-> "file", name |-> <<110,10,108>>,
       abs |-> "/dir/n\nl", size |-> 205, mtime |-> 300],
      [id |-> 4, parent |-> 0, kind |-> "file", name |-> <<99,46,116,120,116>>,
       abs |-> "/dir/c.txt", size |-> 30, mtime |-> 400] }

\* The text of an absolute path of CsvDisk.
PathText(path) ==
    CASE path = "/dir/a,b.txt" -> <<47,100,105,114,47,97,44,98,46,116,120,116>>
      [] path = "/dir/q\".csv" -> <<47,100,105,114,47,113,34,46,99,115,118>>
      [] path = "/dir/n\nl" -> <<47,100,105,114,47,110,10,108>>
      [] path = "/dir/c.txt" -> <<47,100,105,114,47,99,46,116,120,116>>

RECURSIVE ToDecimal(_)
\* u64::to_string.
ToDecimal(n) ==
    IF n < 10 THEN <<48 + n>>
    ELSE ToDecimal(n \div 10) \o <<48 + (n % 10)>>

\* The bytes a csv::Writer quotes a field for: the delimiter, the quote, CR
\* and LF.
NeedsQuotes(field) == \E i \in 1..Len(field) : field[i] \in {44, 34, 13, 10}

RECURSIVE DoubleQuotes(_)
\* Every quote inside a quoted field is written twice.
DoubleQuotes(field) ==
    IF field = <<>> THEN <<>>
    ELSE (IF Head(field) = 34 THEN <<34, 34>> ELSE <<Head(field)>>)
         \o DoubleQuotes(Tail(field))

\* csv::Writer writing one field.
WriteField(field) ==
    IF NeedsQuotes(field) THEN <<34>> \o DoubleQuotes(field) \o <<34>>
    ELSE field

RECURSIVE JoinFields(_)
JoinFields(fields) ==
    IF Len(fields) = 1 THEN WriteField(fields[1])
    ELSE WriteField(Head(fields)) \o <<44>> \o JoinFields(Tail(fields))

\* csv::Writer::write_record: the fields, comma separated, then a line feed.
write_record(fields) == JoinFields(fields) \o <<10>>

\* The UTF-8 byte order mark written first.
Bom == <<239, 187, 191>>

\* The header record.
CsvHeader ==
    << <<70,105,108,101,32,78,97,109,101>>,
       <<69,120,116,101,110,115,105,111,110>>,
       <<83,105,122,101,32,40,98,121,116,101,115,41>>,
       <<82,101,108,97,116,105,118,101,32,80,97,116,104>>,
       <<70,117,108,108,32,80,97,116,104>> >>

\* The record written for one file.
CsvRecord(f) ==
    <<f.name, f.extension, ToDecimal(f.file_size), f.relative_path,
      PathText(f.absolute_path)>>

RECURSIVE WriteRows(_)
WriteRows(fs) ==
    IF fs = <<>> THEN <<>>
    ELSE write_record(CsvRecord(Head(fs))) \o WriteRows(Tail(fs))

\* export_to_csv writing a field as it is, never quoted.
export_to_csv_Unquoted(fs) ==
    LET RECURSIVE Raw(_)
        Raw(fields) == IF Len(fields) = 1 THEN fields[1]
                       ELSE Head(fields) \o <<44>> \o Raw(Tail(fields))
        RECURSIVE Rows(_)
        Rows(rest) == IF rest = <<>> THEN <<>>
                      ELSE Raw(CsvRecord(Head(rest))) \o <<10>> \o Rows(Tail(rest))
    IN  Bom \o write_record(CsvHeader) \o Rows(fs)

\* export_to_csv: the bytes of the file when every write succeeds.
export_to_csv(fs) == Bom \o write_record(CsvHeader) \o WriteRows(fs)

\* How an export ends: the file cannot be created, a write fails after the
\* byte order mark, or everything is written.
ExportOutcomes == {"create_failed", "write_failed", "ok"}

\* export_csv, behind the Export button drawn while files is not empty: the
\* visible rows are written to the path the dialog returned.
export_csv(outcome) ==
    /\ files # <<>>
    /\ csv_file' = CASE outcome = "create_failed" -> csv_file
                     [] outcome = "write_failed" -> [exists |-> TRUE, bytes |-> Bom]
                     [] outcome = "ok" ->
                            [exists |-> TRUE, bytes |-> export_to_csv(filtered_files)]
    /\ IF outcome = "ok"
       THEN /\ status_message' = <<"Exported", Len(filtered_files)>>
            /\ error_message' = None
       ELSE /\ error_message' = "Export failed"
            /\ UNCHANGED status_message
    /\ last' = [op |-> "export_csv", arg |-> 0, ret |-> outcome]
    /\ UNCHANGED <<selected_folder, files, filtered_files, recursive, sort_column,
                   sort_order, filter_text, show_duplicates_only, show_today_only,
                   duplicate_counts, selected_files, scanVars, slotVars, flagVars,
                   confirmVars, disk, walk_out, today_out, resize_out, temp_file,
                   extractions, renameVars, image_cache, tasks>>

\* The application on /dir of CsvDisk: scans, the filter box, the column
\* headers and the Export button.
InitCsv ==
    /\ Default
    /\ FFMPEG_AVAILABLE = FALSE
    /\ PDFIUM_AVAILABLE = FALSE
    /\ Probed
    /\ disk = CsvDisk

\* Texts typed into the filter box: "t" and ",".
CsvFilterTexts == { <<>>, <<116>>, <<44>> }

\* Column headers clicked before an export.
CsvSortColumns == {"Name", "Size"}

NextCsv ==
    \/ \E folder \in Folders : SelectFolder(folder)
    \/ \E s \in 1..Len(scans) : ScanThread(s)
    \/ check_scan_results
    \/ \E text \in CsvFilterTexts : FilterChanged(text)
    \/ \E column \in CsvSortColumns : toggle_sort(column)
    \/ \E outcome \in ExportOutcomes : export_csv(outcome)

CsvSpec == InitCsv /\ [][NextCsv]_vars


\* ------------------------------------------------------- capability probes
\* The frame every action of the probes leaves alone.
probeFrame == <<appVars, scanVars, slotVars, confirmVars, envVars, image_cache, tasks>>

\* check_ffmpeg_availability running `where ffmpeg` on every call.
check_ffmpeg_availability_EveryCall(found) ==
    /\ probes.ffmpeg_calls < MaxCalls
    /\ FFMPEG_CHECKED' = TRUE
    /\ FFMPEG_AVAILABLE' = (FFMPEG_AVAILABLE \/ found)
    /\ probes' = [probes EXCEPT !.ffmpeg_calls = @ + 1, !.ffmpeg_runs = @ + 1]
    /\ last' = [op |-> "check_ffmpeg_availability", arg |-> 0, ret |-> "probed"]
    /\ UNCHANGED <<PDFIUM_AVAILABLE, PDFIUM_CHECKED, PDFIUM_DOWNLOADING, fetches,
                   probeFrame>>

\* check_ffmpeg_availability: FFMPEG_CHECKED.call_once runs `where ffmpeg` and
\* stores true when it is found.
check_ffmpeg_availability(found) ==
    /\ probes.ffmpeg_calls < MaxCalls
    /\ IF FFMPEG_CHECKED
       THEN /\ probes' = [probes EXCEPT !.ffmpeg_calls = @ + 1]
            /\ last' = [op |-> "check_ffmpeg_availability", arg |-> 0, ret |-> "skipped"]
            /\ UNCHANGED <<FFMPEG_CHECKED, FFMPEG_AVAILABLE>>
       ELSE /\ FFMPEG_CHECKED' = TRUE
            /\ FFMPEG_AVAILABLE' = (FFMPEG_AVAILABLE \/ found)
            /\ probes' = [probes EXCEPT !.ffmpeg_calls = @ + 1, !.ffmpeg_runs = @ + 1]
            /\ last' = [op |-> "check_ffmpeg_availability", arg |-> 0, ret |-> "probed"]
    /\ UNCHANGED <<PDFIUM_AVAILABLE, PDFIUM_CHECKED, PDFIUM_DOWNLOADING, fetches,
                   probeFrame>>

\* check_pdfium_availability: PDFIUM_CHECKED.call_once binds the system
\* library or the downloaded one and stores true; when neither binds it
\* spawns download_pdfium.
check_pdfium_availability(system_binds, local_binds) ==
    /\ probes.pdfium_calls < MaxCalls
    /\ IF PDFIUM_CHECKED
       THEN /\ probes' = [probes EXCEPT !.pdfium_calls = @ + 1]
            /\ last' = [op |-> "check_pdfium_availability", arg |-> 0, ret |-> "skipped"]
            /\ UNCHANGED <<PDFIUM_CHECKED, PDFIUM_AVAILABLE, fetches>>
       ELSE /\ PDFIUM_CHECKED' = TRUE
            /\ probes' = [probes EXCEPT !.pdfium_calls = @ + 1, !.pdfium_runs = @ + 1]
            /\ IF system_binds \/ local_binds
               THEN /\ PDFIUM_AVAILABLE' = TRUE
                    /\ UNCHANGED fetches
                    /\ last' = [op |-> "check_pdfium_availability", arg |-> 0,
                                ret |-> "bound"]
               ELSE /\ fetches' = Append(fetches, [pc |-> "spawned", by |-> "probe",
                                                   outcome |-> ""])
                    /\ UNCHANGED PDFIUM_AVAILABLE
                    /\ last' = [op |-> "check_pdfium_availability", arg |-> 0,
                                ret |-> "spawn"]
    /\ UNCHANGED <<FFMPEG_AVAILABLE, FFMPEG_CHECKED, PDFIUM_DOWNLOADING, probeFrame>>

\* The "Download Pdfium" button of update, drawn while the library is neither
\* ready nor downloading: the flag is stored before the thread is spawned.
DownloadButton ==
    /\ PDFIUM_CHECKED
    /\ ~PDFIUM_AVAILABLE
    /\ ~PDFIUM_DOWNLOADING
    /\ Len(fetches) < MaxFetches
    /\ PDFIUM_DOWNLOADING' = TRUE
    /\ fetches' = Append(fetches, [pc |-> "spawned", by |-> "button", outcome |-> ""])
    /\ last' = [op |-> "download_button", arg |-> 0, ret |-> "spawn"]
    /\ UNCHANGED <<FFMPEG_AVAILABLE, FFMPEG_CHECKED, PDFIUM_AVAILABLE, PDFIUM_CHECKED,
                   probes, probeFrame>>

\* download_pdfium, first statement: PDFIUM_DOWNLOADING.store(true).
FetchBegin(t) ==
    /\ fetches[t].pc = "spawned"
    /\ PDFIUM_DOWNLOADING' = TRUE
    /\ fetches' = [fetches EXCEPT ![t].pc = "running"]
    /\ UNCHANGED <<FFMPEG_AVAILABLE, FFMPEG_CHECKED, PDFIUM_AVAILABLE, PDFIUM_CHECKED,
                   probes, last, probeFrame>>

\* How the body of download_pdfium ends: the directory cannot be created, the
\* download fails, the downloaded library does not bind, or it binds.
FetchOutcomes == {"no_dir", "download_failed", "bind_failed", "bound"}

\* download_pdfium, the body: PDFIUM_AVAILABLE.store(true) when the library
\* was downloaded and binds.
FetchBody(t, outcome) ==
    /\ fetches[t].pc = "running"
    /\ fetches' = [fetches EXCEPT ![t].pc = "finishing", ![t].outcome = outcome]
    /\ PDFIUM_AVAILABLE' = (PDFIUM_AVAILABLE \/ outcome = "bound")
    /\ UNCHANGED <<FFMPEG_AVAILABLE, FFMPEG_CHECKED, PDFIUM_CHECKED, PDFIUM_DOWNLOADING,
                   probes, last, probeFrame>>

\* download_pdfium, last statement on every path: PDFIUM_DOWNLOADING.store(false).
FetchEnd(t) ==
    /\ fetches[t].pc = "finishing"
    /\ PDFIUM_DOWNLOADING' = FALSE
    /\ fetches' = [fetches EXCEPT ![t].pc = "done"]
    /\ UNCHANGED <<FFMPEG_AVAILABLE, FFMPEG_CHECKED, PDFIUM_AVAILABLE, PDFIUM_CHECKED,
                   probes, last, probeFrame>>

\* The process before new() has run: nothing probed.
InitProbe ==
    /\ Default
    /\ FFMPEG_AVAILABLE = FALSE
    /\ PDFIUM_AVAILABLE = FALSE
    /\ FFMPEG_CHECKED = FALSE
    /\ PDFIUM_CHECKED = FALSE
    /\ PDFIUM_DOWNLOADING = FALSE
    /\ fetches = <<>>
    /\ probes = [ffmpeg_calls |-> 0, ffmpeg_runs |-> 0,
                 pdfium_calls |-> 0, pdfium_runs |-> 0]
    /\ disk = FlatDisk

NextProbe ==
    \/ \E found \in BOOLEAN : check_ffmpeg_availability(found)
    \/ \E system_binds, local_binds \in BOOLEAN :
           check_pdfium_availability(system_binds, local_binds)
    \/ DownloadButton
    \/ \E t \in 1..Len(fetches) : FetchBegin(t)
    \/ \E t \in 1..Len(fetches), outcome \in FetchOutcomes : FetchBody(t, outcome)
    \/ \E t \in 1..Len(fetches) : FetchEnd(t)

ProbeSpec == InitProbe /\ [][NextProbe]_vars


\* ------------------------------------------------------- preview resizing
\* max_size of the preview thread.
max_size == 400

\* Widths and heights of decoded images: the smallest, those around max_size,
\* one that does not divide evenly, and one past each multiple of max_size.
Sides ==
    (1..3) \cup ((max_size - 2)..(max_size + 2)) \cup {333}
    \cup {k * max_size + 1 : k \in 1..MaxScale}

\* The (width, height) the preview thread passes to image.resize. The ratio
\* is exact here where the code computes it in f32; the casts to u32 truncate.
TargetSize(w, h) ==
    IF w > max_size \/ h > max_size
    THEN IF w > h
         THEN [width |-> max_size, height |-> (max_size * h) \div w]
         ELSE [width |-> (max_size * w) \div h, height |-> max_size]
    ELSE [width |-> w, height |-> h]

\* a / b rounded to the nearest integer, halves away from zero.
RoundDiv(a, b) == (2 * a + b) \div (2 * b)

Max(a, b) == IF a >= b THEN a ELSE b

\* DynamicImage::resize: the aspect ratio is kept and the image is scaled, by
\* the smaller of nwidth / w and nheight / h, to the largest size that fits in
\* nwidth x nheight; each side is rounded and is at least 1.
resize(w, h, nwidth, nheight) ==
    IF nwidth * h <= nheight * w
    THEN [width |-> Max(nwidth, 1), height |-> Max(RoundDiv(h * nwidth, w), 1)]
    ELSE [width |-> Max(RoundDiv(w * nheight, h), 1), height |-> Max(nheight, 1)]

\* The width and height of the ImagePreviewData sent for a w x h image.
PreviewSize(w, h) ==
    LET target == TargetSize(w, h)
    IN  resize(w, h, target.width, target.height)

\* The resizing as a function of the size of the decoded image.
InitResize ==
    /\ Default
    /\ FFMPEG_AVAILABLE = FALSE
    /\ PDFIUM_AVAILABLE = FALSE
    /\ Probed
    /\ disk = FlatDisk

\* The preview thread from image::load_from_memory to the ImagePreviewData.
Resize(w, h) ==
    /\ ~resize_out.called
    /\ resize_out' = [called |-> TRUE, w |-> w, h |-> h,
                      target |-> TargetSize(w, h), preview |-> PreviewSize(w, h)]
    /\ UNCHANGED <<appVars, scanVars, slotVars, flagVars, confirmVars, disk, walk_out,
                   today_out, csv_file, temp_file, extractions, renameVars, image_cache,
                   tasks, last>>

NextResize == \E w, h \in Sides : Resize(w, h)

ResizeSpec == InitResize /\ [][NextResize]_vars


\* ------------------------------------------------- video frame extraction
\* /dir holding two videos.
VideoDisk ==
    { [id |-> 0, parent |-> NoParent, kind |-> "dir", name |-> <<>>,
       abs |-> "/dir", size |-> 0, mtime |-> 0],
      [id |-> 2, parent |-> 0, kind |-> "file", name |-> <<98,46,109,112,52>>,
       abs |-> "/dir/b.mp4", size |-> 20, mtime |-> 0],
      [id |-> 5, parent |-> 0, kind |-> "file", name |-> <<101,46,97,118,105>>,
       abs |-> "/dir/e.avi", size |-> 40, mtime |-> 0] }

\* What the steps of a preview thread leave alone.
videoFrame == <<last, appVars, scanVars, slotVars, flagVars, confirmVars, disk, walk_out,
                today_out, csv_file, resize_out, renameVars, image_cache>>

\* extract_video_thumbnail(video_path) up to the first Command: it returns
\* None when FFmpeg is not ready or find_ffmpeg finds nothing, and otherwise
\* runs ffmpeg for the frame at second 1, writing to the temp file of the
\* process.
extract_video_thumbnail(t, video_path, found) ==
    /\ extractions[t].pc = "start"
    /\ extractions' = [extractions EXCEPT
                         ![t].video_path = video_path,
                         ![t].pc = IF is_ffmpeg_ready /\ found THEN "ffmpeg"
                                   ELSE "returned",
                         ![t].requests = IF is_ffmpeg_ready /\ found THEN <<1>>
                                         ELSE <<>>]
    /\ UNCHANGED temp_file

\* How a run of ffmpeg ends: it could not be launched; it exits with a failure
\* status; it exits with success having written an empty file (no frame at
\* that offset); it exits with success having written the frame.
FfmpegOutcomes == {"launch_failed", "exit_failure", "no_frame", "frame"}

\* Command::output() returns: ffmpeg has overwritten the temp file (-y) with
\* what it produced from the video it was given.
FfmpegExits(t, outcome) ==
    /\ extractions[t].pc = "ffmpeg"
    /\ extractions' = [extractions EXCEPT ![t].pc = "ran",
                                          ![t].status = Append(@, outcome)]
    /\ temp_file' = CASE outcome = "frame" -> extractions[t].video_path
                      [] outcome = "no_frame" -> "empty"
                      [] OTHER -> temp_file
    /\ UNCHANGED <<tasks, videoFrame>>

\* FallsBack that also retries when ffmpeg could not be launched.
FallsBack_Always(e) == Len(e.requests) = 1

\* After an attempt without data: the frame at second 0 is asked for after
\* the first attempt, unless that one could not be launched.
FallsBack(e) == Len(e.requests) = 1 /\ e.status[1] # "launch_failed"

\* The attempt read data: ffmpeg exited with success and fs::read returned
\* bytes, not none.
ReadsData(e) ==
    /\ e.status[Len(e.status)] \in {"no_frame", "frame"}
    /\ temp_file \notin {"missing", "empty"}

\* extract_video_thumbnail after a run of ffmpeg: read and remove the temp
\* file; return its bytes if there are any, otherwise run ffmpeg for the frame
\* at second 0 or, after that one too, remove the temp file and return None.
ExtractReads(t) ==
    /\ extractions[t].pc = "ran"
    /\ LET e == extractions[t]
           succeeded == e.status[Len(e.status)] \in {"no_frame", "frame"}
       IN  IF ReadsData(e)
           THEN /\ extractions' = [extractions EXCEPT ![t].pc = "returned",
                                                      ![t].yielded = Append(@, TRUE),
                                                      ![t].source = temp_file]
                /\ temp_file' = "missing"
           ELSE IF FallsBack(e)
           THEN /\ extractions' = [extractions EXCEPT ![t].pc = "ffmpeg",
                                                      ![t].yielded = Append(@, FALSE),
                                                      ![t].requests = <<1, 0>>]
                /\ temp_file' = IF succeeded THEN "missing" ELSE temp_file
           ELSE /\ extractions' = [extractions EXCEPT ![t].pc = "returned",
                                                      ![t].yielded = Append(@, FALSE)]
                /\ temp_file' = IF Len(e.requests) = 2 \/ succeeded THEN "missing"
                                ELSE temp_file
    /\ UNCHANGED <<tasks, videoFrame>>

\* The preview thread of a video calls extract_video_thumbnail with its path.
VideoStart(t, found) ==
    /\ t \in 1..Len(tasks)
    /\ tasks[t].pc = "running"
    /\ tasks[t].is_video
    /\ extract_video_thumbnail(t, tasks[t].path, found)
    /\ UNCHANGED <<tasks, videoFrame>>

\* The preview thread after extract_video_thumbnail returned: with data it
\* sends the pixels under its own path, and the send fails silently when the
\* receiver is gone.
VideoSends(t) ==
    /\ t \in 1..Len(tasks)
    /\ tasks[t].pc = "running"
    /\ extractions[t].pc = "returned"
    /\ LET got_image == extractions[t].source # None
       IN  tasks' = [tasks EXCEPT
                       ![t].pc = IF got_image THEN "sent" ELSE "failed",
                       ![t].msg = IF got_image /\ tasks[t].rx = "held"
                                  THEN <<[path |-> tasks[t].path, data |-> t]>>
                                  ELSE <<>>]
    /\ UNCHANGED <<backendVars, videoFrame>>

\* The application on /dir of VideoDisk with FFmpeg found by the probe.
InitVideo ==
    /\ Default
    /\ FFMPEG_AVAILABLE = TRUE
    /\ PDFIUM_AVAILABLE = FALSE
    /\ Probed
    /\ disk = VideoDisk

\* The hover previews of videos: the preview threads run step by step and
\* share the temp file. A thread is abandoned when the pointer moves to
\* another row; the clock stands still.
NextVideo ==
    \/ \E folder \in Folders : SelectFolder(folder)
    \/ \E s \in 1..MaxScans : ScanThread(s)
    \/ check_scan_results
    \/ \E idx \in HoverIdx : load_hover_preview(idx)
    \/ \E t \in 1..MaxTasks, found \in BOOLEAN : VideoStart(t, found)
    \/ \E t \in 1..MaxTasks, outcome \in FfmpegOutcomes : FfmpegExits(t, outcome)
    \/ \E t \in 1..MaxTasks : ExtractReads(t)
    \/ \E t \in 1..MaxTasks : VideoSends(t)
    \/ check_image_loads

VideoSpec == InitVideo /\ [][NextVideo]_vars

\* extract_video_thumbnail on its own: up to MaxTasks calls for the same
\* video run side by side, whether or not FFmpeg was found by the probe.
InitExtract ==
    /\ Default
    /\ FFMPEG_AVAILABLE \in BOOLEAN
    /\ PDFIUM_AVAILABLE = FALSE
    /\ Probed
    /\ disk = VideoDisk

CallExtract(t, found) ==
    /\ extract_video_thumbnail(t, "/dir/b.mp4", found)
    /\ UNCHANGED <<tasks, videoFrame>>

NextExtract ==
    \/ \E t \in 1..MaxTasks, found \in BOOLEAN : CallExtract(t, found)
    \/ \E t \in 1..MaxTasks, outcome \in FfmpegOutcomes : FfmpegExits(t, outcome)
    \/ \E t \in 1..MaxTasks : ExtractReads(t)

ExtractSpec == InitExtract /\ [][NextExtract]_vars

\* ------------------------------------------------- previews across re-scans
\* The hover previews with re-scans started by the recursive checkbox while
\* previews are cached or being loaded; the clock stands still.
NextRescan ==
    \/ \E folder \in Folders : SelectFolder(folder)
    \/ ToggleRecursive
    \/ \E s \in 1..(MaxScans + MaxRescans) : ScanThread(s)
    \/ check_scan_results
    \/ \E idx \in HoverIdx : load_hover_preview(idx)
    \/ \E t \in 1..MaxTasks, got_image \in BOOLEAN : PreviewThread(t, got_image)
    \/ check_image_loads

RescanSpec == Init /\ [][NextRescan]_vars


\* ------------------------------------------------------------------ rename
\* The absolute path of name in the folder parent: parent.join(new_name).
JoinPath(parent, name) ==
    CASE parent = "/dir" /\ name = <<97,46,116,120,116>> -> "/dir/a.txt"
      [] parent = "/dir" /\ name = <<98,46,84,88,84>> -> "/dir/b.TXT"
      [] parent = "/dir" /\ name = <<66,46,116,120,116>> -> "/dir/B.txt"
      [] parent = "/dir" /\ name = <<122,46,116,120,116>> -> "/dir/z.txt"
      [] parent = "/dir/sub" /\ name = <<97,46,116,120,116>> -> "/dir/sub/a.txt"
      [] parent = "/dir/sub" /\ name = <<98,46,84,88,84>> -> "/dir/sub/b.TXT"
      [] parent = "/dir/sub" /\ name = <<66,46,116,120,116>> -> "/dir/sub/B.txt"
      [] parent = "/dir/sub" /\ name = <<122,46,116,120,116>> -> "/dir/sub/z.txt"

RECURSIVE TrimStart(_)
TrimStart(text) ==
    IF text # <<>> /\ Head(text) = 32 THEN TrimStart(Tail(text)) ELSE text

\* str::trim, for texts whose only white space is the space.
Trim(text) == Reverse(TrimStart(Reverse(TrimStart(text))))

\* std::fs::rename of the file at old_path to new_name in the same folder; a
\* file already there is replaced.
RenameNode(fsys, old_path, new_name) ==
    LET n == CHOOSE m \in fsys : m.abs = old_path
        parent == (CHOOSE d \in fsys : d.id = n.parent).abs
        new_path == JoinPath(parent, new_name)
    IN  {m \in fsys : m.abs # old_path /\ m.abs # new_path}
        \cup {[n EXCEPT !.name = new_name, !.abs = new_path]}

\* What the handlers of the rename box leave alone.
renameFrame == <<selected_folder, files, filtered_files, recursive, sort_column,
                 sort_order, filter_text, show_duplicates_only, show_today_only,
                 duplicate_counts, slotVars, flagVars, confirmVars, walk_out, today_out,
                 backendVars, tasks>>

\* start_rename(idx), on a double click on the name of row idx.
start_rename(idx) ==
    /\ IF idx <= Len(filtered_files)
       THEN /\ editing_index' = idx
            /\ editing_text' = filtered_files[idx].full_name
            /\ rename_target' = filtered_files[idx].absolute_path
       ELSE UNCHANGED renameVars
    /\ last' = [op |-> "start_rename", arg |-> idx, ret |-> ""]
    /\ UNCHANGED <<status_message, error_message, selected_files, image_cache, scanVars,
                   disk, renameFrame>>

\* Names typed into the rename box: " z.txt ".
TypedNames == { <<32,122,46,116,120,116,32>> }

\* The user types in the TextEdit bound to editing_text, shown while a row is
\* being edited.
EditText(text) ==
    /\ editing_index # NoRow
    /\ editing_index <= Len(filtered_files)
    /\ editing_text' = text
    /\ UNCHANGED <<editing_index, rename_target, last>>
    /\ UNCHANGED <<status_message, error_message, selected_files, image_cache, scanVars,
                   disk, renameFrame>>

\* cancel_rename, on Escape.
cancel_rename ==
    /\ editing_index # NoRow
    /\ editing_index' = NoRow
    /\ editing_text' = <<>>
    /\ rename_target' = None
    /\ last' = [op |-> "cancel_rename", arg |-> 0, ret |-> ""]
    /\ UNCHANGED <<status_message, error_message, selected_files, image_cache, scanVars,
                   disk, renameFrame>>

\* confirm_rename, when the rename box loses the focus (Enter, or a click
\* elsewhere): the file now at row editing_index is renamed by rename_file to
\* the trimmed text unless that is empty or the row's own name; a rename that
\* succeeds is followed by a re-scan. renamed: std::fs::rename succeeds, which
\* it cannot when the file is gone.
confirm_rename(renamed) ==
    /\ editing_index # NoRow
    /\ Len(scans) < MaxScans + MaxRescans
    /\ editing_index' = NoRow
    /\ editing_text' = <<>>
    /\ rename_target' = None
    /\ LET idx == editing_index
           new_name == Trim(editing_text)
       IN  IF /\ idx <= Len(filtered_files)
              /\ new_name # <<>>
              /\ new_name # filtered_files[idx].full_name
           THEN IF renamed /\ FileExists(disk, filtered_files[idx].absolute_path)
                THEN /\ disk' = RenameNode(disk, filtered_files[idx].absolute_path,
                                           new_name)
                     /\ UNCHANGED recursive
                     /\ scan_selected_folder(selected_folder)
                     /\ last' = [op |-> "confirm_rename", arg |-> idx, ret |-> "renamed"]
                ELSE /\ error_message' = "Rename failed"
                     /\ last' = [op |-> "confirm_rename", arg |-> idx, ret |-> "failed"]
                     /\ UNCHANGED <<status_message, selected_files, image_cache, scanVars,
                                    disk, recursive>>
           ELSE /\ last' = [op |-> "confirm_rename", arg |-> idx, ret |-> "none"]
                /\ UNCHANGED <<status_message, error_message, selected_files,
                               image_cache, scanVars, disk, recursive>>
    /\ UNCHANGED <<selected_folder, files, filtered_files, sort_column,
                   sort_order, filter_text, show_duplicates_only, show_today_only,
                   duplicate_counts, slotVars, flagVars, confirmVars, walk_out, today_out,
                   backendVars, tasks>>

\* Column headers clicked while a name is edited.
RenameSortColumns == {"Name", "Size"}

\* Renaming rows of /dir of TreeDisk while scans are delivered and the sort
\* changes.
NextRename ==
    \/ \E folder \in Folders : SelectFolder(folder)
    \/ \E s \in 1..(MaxScans + MaxRescans) : ScanThread(s)
    \/ check_scan_results
    \/ \E column \in RenameSortColumns : toggle_sort(column)
    \/ \E idx \in RowIdx : start_rename(idx)
    \/ \E text \in TypedNames : EditText(text)
    \/ cancel_rename
    \/ \E renamed \in BOOLEAN : confirm_rename(renamed)

RenameSpec == InitView /\ [][NextRename]_vars


\* ------------------------------------------------------------ type checks
TypeOK ==
    /\ selected_folder \in Folders \cup {None}
    /\ scan_receiver \in (1..Len(scans)) \cup {NoReceiver}
    /\ is_scanning \in BOOLEAN
    /\ image_receiver \in (1..Len(tasks)) \cup {NoReceiver}
    /\ image_loading_path \in Paths \cup {None}
    /\ image_loading_start \in (0..(TimeoutSecs + TickSecs)) \cup {NoInstant}
    /\ image_cache \in [Paths -> 0..Len(tasks)]
    /\ Len(tasks) <= MaxTasks
    /\ Len(scans) <= MaxScans + MaxRescans

\* ------------------------------------------------- preview pipeline claims
RowPath(idx) == filtered_files[idx].absolute_path

RowExt(idx) == filtered_files[idx].extension

InRange(idx) == idx <= Len(filtered_files)

\* Row idx is previewable, not cached, not the path being loaded, backend ready.
Loadable(idx) ==
    /\ InRange(idx)
    /\ is_previewable(RowExt(idx))
    /\ image_cache[RowPath(idx)] = 0
    /\ image_loading_path # RowPath(idx)
    /\ is_video_file(RowExt(idx)) => FFMPEG_AVAILABLE
    /\ is_pdf_file(RowExt(idx)) => PDFIUM_AVAILABLE

\* This step is check_image_loads.
Polls == last'.op = "check_image_loads" /\ check_image_loads

\* This step is load_hover_preview(idx).
Requests(idx) ==
    /\ last'.op = "load_hover_preview"
    /\ last'.arg = idx
    /\ load_hover_preview(idx)

SlotIdle(receiver, path, start) ==
    receiver = NoReceiver /\ path = None /\ start = NoInstant

\* Threads whose channel still has its receiver.
Connected == {t \in 1..Len(tasks) : tasks[t].rx = "held"}

\* Threads spawned and not yet finished.
AliveTasks == {t \in 1..Len(tasks) : tasks[t].pc = "running"}

\* C1: a request for a loadable path P2 made while the slot is Loading(P1),
\* P1 # P2, makes the slot Loading(P2) with a new, empty channel and a start
\* time of now, and drops the receiver of P1's thread; from then on the
\* payload of that abandoned thread is never stored in image_cache.
C1_AbandonedLoadNeverCached ==
    [][ /\ \A idx \in HoverIdx :
              (Requests(idx) /\ image_loading_path # None /\ Loadable(idx))
              => /\ image_loading_path' = RowPath(idx)
                 /\ image_loading_start' = 0
                 /\ image_receiver' = Len(tasks) + 1
                 /\ Len(tasks') = Len(tasks) + 1
                 /\ tasks'[image_receiver'].path = RowPath(idx)
                 /\ tasks'[image_receiver'].rx = "held"
                 /\ tasks'[image_receiver'].msg = <<>>
                 /\ image_receiver # NoReceiver
                 /\ tasks'[image_receiver].rx = "replaced"
                 /\ \A p \in Paths : image_cache'[p] # image_receiver
        /\ \A t \in 1..Len(tasks) :
              tasks[t].rx = "replaced"
              => /\ tasks'[t].rx = "replaced"
                 /\ tasks'[t].msg = <<>>
                 /\ image_receiver' # t
                 /\ \A p \in Paths : image_cache'[p] # t
      ]_vars

\* C1 witness: the thread of P1 was replaced by a load of another path, went on
\* to produce its image, and a later poll ran without caching it.
C1_Witness ==
    /\ Len(tasks) >= 2
    /\ tasks[1].rx = "replaced"
    /\ tasks[1].pc = "sent"
    /\ tasks[2].path # tasks[1].path
    /\ last.op = "check_image_loads"
    /\ image_cache[tasks[1].path] = 0

\* C2 (as stated): a request for a different path while an extraction is in
\* flight is dropped: no thread is spawned and the slot's path, start time and
\* channel stay as they were.
C2_SecondRequestDropped ==
    [][ \A idx \in HoverIdx :
           (/\ Requests(idx)
            /\ InRange(idx)
            /\ image_loading_path # None
            /\ image_loading_path # RowPath(idx)
            /\ image_receiver \in AliveTasks)
           => UNCHANGED <<slotVars, tasks>>
      ]_vars

\* C2 (amended): a request for a different path while an extraction is in
\* flight is never queued; when the path is loadable it takes the slot over (one
\* more thread, the slot holds the new path, a start time of now and the new
\* channel, which is the only connected one), and otherwise it changes nothing.
C2_SecondRequestReplaces ==
    [][ \A idx \in HoverIdx :
           (/\ Requests(idx)
            /\ InRange(idx)
            /\ image_loading_path # None
            /\ image_loading_path # RowPath(idx)
            /\ image_receiver \in AliveTasks)
           => IF Loadable(idx)
              THEN /\ Len(tasks') = Len(tasks) + 1
                   /\ tasks'[Len(tasks')].pc = "running"
                   /\ tasks'[Len(tasks')].path = RowPath(idx)
                   /\ <<image_receiver', image_loading_path', image_loading_start'>>
                        = <<Len(tasks'), RowPath(idx), 0>>
                   /\ Connected' = {Len(tasks')}
                   /\ image_receiver \in AliveTasks'
              ELSE UNCHANGED <<slotVars, tasks>>
      ]_vars

\* C2 witness: the last request spawned a second thread while the first one,
\* for another path, was still running.
C2_Witness ==
    /\ last.op = "load_hover_preview"
    /\ last.ret = "spawn"
    /\ Len(tasks) = 2
    /\ image_receiver = 2
    /\ tasks[1].pc = "running"
    /\ tasks[1].rx = "replaced"
    /\ tasks[1].path # tasks[2].path

\* C3 (as stated): at most one preview thread is alive.
C3_OneTaskAlive == Cardinality(AliveTasks) <= 1

\* C3 (amended): at most one preview thread is connected to a receiver, and it
\* is the one of the slot, loading the slot's path; threads that were replaced
\* or timed out may be alive beside it, but nothing receives from them.
C3_OneTaskConnected ==
    /\ Cardinality(Connected) <= 1
    /\ \A t \in 1..Len(tasks) :
          tasks[t].rx = "held"
          <=> (image_receiver = t /\ image_loading_path = tasks[t].path)
    /\ image_receiver = NoReceiver => image_loading_path = None

\* C3 witness: two threads alive at once, one of them connected.
C3_Witness ==
    /\ Cardinality(AliveTasks) >= 2
    /\ Cardinality(Connected) = 1

\* C4: a poll that sees a Loading slot older than the timeout leaves the slot
\* Idle, drops the channel and caches nothing; from then on the timed-out
\* thread's payload is never stored in image_cache, whenever it finishes and
\* whatever is requested afterwards.
C4_LateResultDiscarded ==
    [][ /\ (Polls /\ image_loading_start # NoInstant
                  /\ image_loading_start > TimeoutSecs)
           => /\ SlotIdle(image_receiver', image_loading_path', image_loading_start')
              /\ UNCHANGED image_cache
              /\ image_receiver # NoReceiver
              /\ tasks'[image_receiver].rx = "timedout"
              /\ \A p \in Paths : image_cache[p] # image_receiver
        /\ \A t \in 1..Len(tasks) :
              tasks[t].rx = "timedout"
              => /\ tasks'[t].rx = "timedout"
                 /\ tasks'[t].msg = <<>>
                 /\ image_receiver' # t
                 /\ \A p \in Paths : image_cache'[p] # t
      ]_vars

\* C4 witness: thread 1 timed out and produced its image all the same; the
\* same path was requested again and it is thread 2's payload that is cached.
C4_Witness ==
    /\ Len(tasks) = 2
    /\ tasks[1].rx = "timedout"
    /\ tasks[1].pc = "sent"
    /\ tasks[2].path = tasks[1].path
    /\ image_cache[tasks[1].path] = 2

\* A poll of a Loading slot whose channel holds no message.
PollFindsNothing ==
    /\ Polls
    /\ image_receiver # NoReceiver
    /\ tasks[image_receiver].msg = <<>>

\* C5 (as stated): when the backend delivers nothing, the slot goes back to
\* Idle once exactly the 10-second window has elapsed: the poll made with 10
\* seconds on the clock leaves it Idle, an earlier one leaves it Loading.
C5_IdleAtExactlyTimeout ==
    [][ PollFindsNothing
        => IF image_loading_start >= TimeoutSecs
           THEN SlotIdle(image_receiver', image_loading_path', image_loading_start')
           ELSE UNCHANGED slotVars
      ]_vars

\* C5 (amended): when the backend delivers nothing, a poll leaves the slot Idle
\* if and only if strictly more than 10 seconds have elapsed since the request
\* (the poll made at exactly 10 seconds leaves it Loading); the cache is not
\* touched by such a poll, holds no entry for a path being loaded, and never
\* holds the payload of a thread that has not sent one.
C5_IdleOncePastTimeout ==
    [][ /\ PollFindsNothing
           => /\ IF image_loading_start > TimeoutSecs
                 THEN SlotIdle(image_receiver', image_loading_path',
                               image_loading_start')
                 ELSE UNCHANGED slotVars
              /\ UNCHANGED image_cache
        /\ image_loading_path' # None => image_cache'[image_loading_path'] = 0
        /\ \A t \in 1..Len(tasks') :
              tasks'[t].pc # "sent" => \A p \in Paths : image_cache'[p] # t
      ]_vars

\* C5 witness: a thread that failed without sending was timed out by the last
\* poll, and the cache has nothing for its path.
C5_Witness ==
    /\ last.op = "check_image_loads"
    /\ last.ret = "timeout"
    /\ SlotIdle(image_receiver, image_loading_path, image_loading_start)
    /\ \E t \in 1..Len(tasks) :
          /\ tasks[t].rx = "timedout"
          /\ tasks[t].pc = "failed"
          /\ image_cache[tasks[t].path] = 0

\* C6: load_hover_preview for a row whose path is in image_cache spawns no
\* thread and changes neither the slot nor the cache nor anything else of the
\* application, so any number of such requests equals none.
C6_CachedRequestIsNoOp ==
    [][ \A idx \in HoverIdx :
           (Requests(idx) /\ InRange(idx) /\ image_cache[RowPath(idx)] # 0)
           => UNCHANGED <<slotVars, tasks, image_cache, appVars, scanVars>>
      ]_vars

\* C6 witness: the last handler was a request for a row that was cached.
C6_Witness ==
    /\ last.op = "load_hover_preview"
    /\ InRange(last.arg)
    /\ image_cache[RowPath(last.arg)] # 0

\* C7: load_hover_preview for the path the slot is already loading spawns no
\* thread and resets neither the channel nor the start time.
C7_SamePathRequestIsNoOp ==
    [][ \A idx \in HoverIdx :
           (Requests(idx) /\ InRange(idx)
                                    /\ image_loading_path = RowPath(idx))
           => UNCHANGED <<slotVars, tasks, image_cache>>
      ]_vars

\* C7 witness: the last handler was a request for the path being loaded, made
\* when the load was already some seconds old.
C7_Witness ==
    /\ last.op = "load_hover_preview"
    /\ last.ret = "return"
    /\ InRange(last.arg)
    /\ image_loading_path = RowPath(last.arg)
    /\ image_loading_start > 0
    /\ image_receiver \in AliveTasks

\* Row idx needs a backend that is not ready.
BackendNotReady(idx) ==
    \/ is_video_file(RowExt(idx)) /\ ~FFMPEG_AVAILABLE
    \/ is_pdf_file(RowExt(idx)) /\ ~PDFIUM_AVAILABLE

\* C8: load_hover_preview for a video row while FFmpeg is not ready, or a PDF
\* row while Pdfium is not ready, spawns no thread and leaves the slot (also a
\* Loading of another path) and the cache as they were.
C8_BackendNotReadyIsNoOp ==
    [][ ( /\ last'.op = "load_hover_preview"
          /\ InRange(last'.arg)
          /\ BackendNotReady(last'.arg)
          /\ Requests(last'.arg) )
        => UNCHANGED <<slotVars, tasks, image_cache>>
      ]_vars

\* C8 witness: the last handler was a request for a row whose backend is not
\* ready, made while another path was loading.
C8_Witness ==
    /\ last.op = "load_hover_preview"
    /\ InRange(last.arg)
    /\ BackendNotReady(last.arg)
    /\ image_loading_path # None
    /\ image_loading_path # RowPath(last.arg)
    /\ image_receiver \in AliveTasks

\* C9: a poll of a Loading(P) slot that has not timed out either finds a
\* message, stores its payload under key P and clears receiver, path and start
\* time in the same step, or finds none and changes nothing; the poll can be
\* taken in every state (it never waits).
C9_PollReceivesOrLeaves ==
    [][ /\ (/\ Polls
            /\ image_receiver # NoReceiver
            /\ ~(image_loading_start # NoInstant
                 /\ image_loading_start > TimeoutSecs))
           => IF tasks[image_receiver].msg # <<>>
              THEN /\ image_loading_path # None
                   /\ image_cache' = [image_cache EXCEPT
                                        ![image_loading_path] = image_receiver]
                   /\ SlotIdle(image_receiver', image_loading_path',
                               image_loading_start')
                   /\ tasks'[image_receiver].rx = "consumed"
                   /\ tasks'[image_receiver].msg = <<>>
              ELSE UNCHANGED <<slotVars, image_cache, tasks>>
        /\ ENABLED check_image_loads
      ]_vars

\* C9 witness: the last poll received a payload; it is cached and the slot is
\* Idle.
C9_Witness ==
    /\ last.op = "check_image_loads"
    /\ last.ret = "received"
    /\ SlotIdle(image_receiver, image_loading_path, image_loading_start)
    /\ \E t \in 1..Len(tasks) :
          tasks[t].rx = "consumed" /\ image_cache[tasks[t].path] = t

\* A step of the preview pipeline: a request, a poll or a preview thread.
PreviewStep ==
    \/ \E idx \in HoverIdx : Requests(idx)
    \/ Polls
    \/ \E t \in 1..MaxTasks, got_image \in BOOLEAN : PreviewThread(t, got_image)

\* C10: no step of the preview pipeline changes error_message, and the
\* payload of a thread that failed or timed out is never in image_cache.
C10_PreviewFailureIsSilent ==
    [][ /\ error_message' # error_message => ~PreviewStep
        /\ \A t \in 1..Len(tasks') :
              (tasks'[t].pc = "failed" \/ tasks'[t].rx = "timedout")
              => \A p \in Paths : image_cache'[p] # t
      ]_vars

\* C10 witness: a thread failed, its load timed out at the last poll, and
\* there is no error message and no cache entry for its path.
C10_Witness ==
    /\ last.op = "check_image_loads"
    /\ last.ret = "timeout"
    /\ error_message = None
    /\ \E t \in 1..Len(tasks) :
          /\ tasks[t].pc = "failed"
          /\ tasks[t].rx = "timedout"
          /\ image_cache[tasks[t].path] = 0

\* ------------------------------------------------- scan coordinator claims
\* This step calls scan_selected_folder.
StartsScan ==
    \/ last'.op = "select_folder" /\ \E folder \in Folders : SelectFolder(folder)
    \/ last'.op = "toggle_recursive" /\ ToggleRecursive
    \/ /\ last'.op = "delete_file"
       /\ last'.ret = "ok"
       /\ \E idx \in RowIdx : delete_file(idx, TRUE)

\* This step is a check_scan_results whose try_recv yields a result.
PollReceivesScan ==
    /\ last'.op = "check_scan_results"
    /\ check_scan_results
    /\ scan_receiver # NoReceiver
    /\ scans[scan_receiver].msg # <<>>

C12_OnlyNewestScanApplied ==
    [][ /\ PollReceivesScan
           => /\ scan_receiver = Len(scans)
              /\ scans'[Len(scans)].rx = "consumed"
        /\ (files' # files \/ (error_message' = "Error scanning folder"
                                 /\ error_message # error_message'))
           => PollReceivesScan
        /\ \A s \in 1..Len(scans) :
              scans[s].rx = "dropped"
              => /\ scans'[s].rx = "dropped"
                 /\ scans'[s].msg = <<>>
                 /\ scans'[s].pc \in {"running", "done"}
                 /\ scans'[s].pc # scans[s].pc
                    => UNCHANGED <<appVars, scan_receiver, is_scanning>>
      ]_vars

\* An abandoned scan thread has finished, and the scan started after it was
\* applied.
C12_Witness ==
    /\ last.op = "check_scan_results"
    /\ last.ret \in {"ok", "err"}
    /\ \E s \in 1..Len(scans) :
          /\ s < Len(scans)
          /\ scans[s].rx = "dropped"
          /\ scans[s].pc = "done"
    /\ scans[Len(scans)].rx = "consumed"

\* C13: is_scanning holds exactly while scan_receiver holds a channel, which
\* is the channel of the newest scan thread; a channel never holds more than
\* one message, and one whose result was taken is gone with nothing in it.
C13_ScanningIffReceiverHeld ==
    /\ is_scanning <=> scan_receiver # NoReceiver
    /\ scan_receiver # NoReceiver => scan_receiver = Len(scans)
    /\ \A s \in 1..Len(scans) :
          /\ scans[s].rx = "held" <=> scan_receiver = s
          /\ Len(scans[s].msg) <= 1
          /\ scans[s].msg # <<>> => scans[s].pc = "done"
          /\ scans[s].rx = "consumed" => (scans[s].pc = "done" /\ scans[s].msg = <<>>)

\* One scan was applied and the next one is in progress.
C13_Witness ==
    /\ Len(scans) >= 2
    /\ scans[1].rx = "consumed"
    /\ is_scanning
    /\ scans[Len(scans)].msg # <<>>

\* C15: when the result polled is an error, files and filtered_files are both
\* emptied, error_message is set and is_scanning is cleared.
C15_ScanErrorEmptiesRows ==
    [][ (PollReceivesScan /\ ~Head(scans[scan_receiver].msg).ok)
        => /\ files' = <<>>
           /\ filtered_files' = <<>>
           /\ error_message' # None
           /\ ~is_scanning'
      ]_vars

\* A scan error was polled while the rows of an earlier snapshot were shown
\* (their duplicate counts are still there).
C15_Witness ==
    /\ last.op = "check_scan_results"
    /\ last.ret = "err"
    /\ files = <<>>
    /\ filtered_files = <<>>
    /\ duplicate_counts # <<>>

\* C28 as stated: selected_files is emptied whenever filtered_files changes
\* (scan success, scan error, filter change, sort change), so every selected
\* index is at all times an index of a row of filtered_files.
C28_SelectionIndexesVisibleRows ==
    \A idx \in selected_files : idx \in 1..Len(filtered_files)

\* ---------------------------------------------------- file operation claims
\* This step is a bulk delete or a bulk move.
BulkStep ==
    \/ /\ last'.op = "execute_bulk_delete"
       /\ \E removed \in SUBSET RowIdx : execute_bulk_delete(removed)
    \/ /\ last'.op = "move_selected_files"
       /\ \E order \in {"forward", "backward"} :
             \E outcomes \in BulkOutcomes(SelectedPaths(order)) :
                move_selected_files(order, outcomes)

\* This step is a single or a bulk move.
MoveStep ==
    \/ /\ last'.op = "move_file"
       /\ \E idx \in RowIdx : move_file(idx, last'.ret)
    \/ /\ last'.op = "move_selected_files"
       /\ \E order \in {"forward", "backward"} :
             \E outcomes \in BulkOutcomes(SelectedPaths(order)) :
                move_selected_files(order, outcomes)

\* The files of /dir that this step takes off the disk.
SourcesGone == {n \in disk : n.parent = 0 /\ n.kind = "file" /\ n \notin disk'}

\* The items a bulk operation is to work on.
BulkItems ==
    IF last'.op = "execute_bulk_delete" THEN Len(pending_delete_paths)
    ELSE Len(SelectedPaths("forward"))

\* The status line of a bulk operation: "Deleted 2 files", "Deleted 2 files,
\* 1 failed", "Moved 2 files to /dest", "Moved 2 files, 1 failed".
BulkReport(verb, succeeded, failed) ==
    IF failed = 0 THEN <<verb, succeeded>> ELSE <<verb, succeeded, "failed", failed>>

\* C29 as stated: a bulk delete or move attempts every item, leaves a status
\* whose succeeded and failed counts sum to the number of items, leaves the
\* joined failure messages when an item failed, and always starts a re-scan.
C29_BulkReportsCountsAndRescans ==
    [][ BulkStep
        => LET succeeded == Cardinality(SourcesGone)
               failed == BulkItems - succeeded
               verb == IF last'.op = "execute_bulk_delete" THEN "Deleted"
                       ELSE "Moved"
           IN  /\ last'.arg = BulkItems
               /\ status_message' = BulkReport(verb, succeeded, failed)
               /\ failed > 0 => error_message' = "Joined failures"
               /\ is_scanning'
               /\ Len(scans') = Len(scans) + 1
      ]_vars

\* C30 as stated: in a single or bulk move a source file leaves the disk only
\* once its copy is at the destination, and a move whose delete after a
\* successful copy failed is reported as partial.
C30_MoveFallsBackAndReportsPartial ==
    [][ MoveStep
        => /\ \A n \in SourcesGone : FileExists(disk', DestPath(n.name))
           /\ last'.ret = "partial" => error_message' = "Move partial"
      ]_vars

\* ------------------------------------------------------ view engine claims
\* fs is ordered by the comparator of column and order.
IsSortedBy(column, order, fs) ==
    \A i, j \in 1..Len(fs) : i < j => FileCmp(column, order, fs[i], fs[j]) <= 0

\* full_name -> number of records of fs with exactly that full_name.
CountByName(fs) ==
    [n \in {fs[i].full_name : i \in 1..Len(fs)} |->
        Cardinality({i \in 1..Len(fs) : fs[i].full_name = n})]

\* This step is a change of the sort or of one of the three filters.
ViewChange ==
    \/ last'.op = "toggle_sort" /\ toggle_sort(last'.ret)
    \/ last'.op = "filter_changed" /\ FilterChanged(filter_text')
    \/ last'.op = "clear_filter" /\ ClearFilter
    \/ last'.op = "toggle_duplicates_only" /\ ToggleDuplicatesOnly
    \/ last'.op = "toggle_today_only" /\ ToggleTodayOnly

C19_FilterAndSortKeepDuplicateCounts ==
    [][ ViewChange
        => /\ duplicate_counts' = duplicate_counts
           /\ duplicate_counts' = CountByName(files')
      ]_vars

\* Filters hide some rows of a four-file snapshot sorted by size.
C19_Witness ==
    /\ Len(files) = 4
    /\ filter_text # <<>>
    /\ show_duplicates_only
    /\ sort_column = "Size"
    /\ Len(filtered_files) < Len(files)
    /\ duplicate_counts = CountByName(files)

\* C20: the duplicate count of a record is the number of records whose
\* full_name is the same string, letter case included.
C20_DuplicatesCompareCaseSensitively ==
    files # <<>>
    => \A i \in 1..Len(files) :
          /\ files[i].full_name \in DOMAIN duplicate_counts
          /\ duplicate_counts[files[i].full_name] =
                 Cardinality({j \in 1..Len(files) :
                                 files[j].full_name = files[i].full_name})

\* a.txt and sub/a.txt count 2; b.TXT and sub/B.txt, equal but for letter
\* case, count 1 each.
C20_Witness ==
    /\ Len(files) = 4
    /\ DOMAIN duplicate_counts = {<<97,46,116,120,116>>, <<98,46,84,88,84>>,
                                  <<66,46,116,120,116>>}
    /\ duplicate_counts[<<97,46,116,120,116>>] = 2
    /\ duplicate_counts[<<98,46,84,88,84>>] = 1
    /\ duplicate_counts[<<66,46,116,120,116>>] = 1

\* needle occurs in hay as a run of consecutive characters.
IsInfix(needle, hay) ==
    \E pre \in 0..(Len(hay) - Len(needle)) :
        \A k \in 1..Len(needle) : hay[pre + k] = needle[k]

\* The lowercased text is part of one of the four lowercased fields of f.
MatchesText(f, text) ==
    \E field \in {f.name, f.extension, f.relative_path, f.full_name} :
        IsInfix(ToLower(text), ToLower(field))

\* Record f is one of the rows of filtered_files.
Shown(f) == \E k \in 1..Len(filtered_files) : filtered_files[k] = f

\* Every row of filtered_files is a record of files.
RowsComeFromFiles ==
    \A k \in 1..Len(filtered_files) :
        \E i \in 1..Len(files) : files[i] = filtered_files[k]

\* C21: with both toggles off a record is shown exactly when the lowercased
\* filter text is a substring of its lowercased name, extension, relative
\* path or full name; the empty text shows every record.
C21_TextFilterMatchesLowercasedFields ==
    (~show_duplicates_only /\ ~show_today_only)
    => /\ RowsComeFromFiles
       /\ \A i \in 1..Len(files) :
              Shown(files[i]) <=> MatchesText(files[i], filter_text)
       /\ filter_text = <<>> => filtered_files = files

\* The text "A" shows a.txt and sub/a.txt out of four records.
C21_Witness ==
    /\ ~show_duplicates_only
    /\ ~show_today_only
    /\ filter_text = <<65>>
    /\ Len(files) = 4
    /\ Len(filtered_files) = 2
    /\ \A k \in 1..2 : filtered_files[k].full_name = <<97,46,116,120,116>>

\* C22: with the duplicates toggle on (and the today toggle off) the rows are
\* the records that pass the text filter and whose full_name occurs more than
\* once in the whole of files.
C22_DuplicatesOnlyCountsWholeSnapshot ==
    (show_duplicates_only /\ ~show_today_only)
    => /\ RowsComeFromFiles
       /\ \A i \in 1..Len(files) :
              Shown(files[i])
              <=> /\ MatchesText(files[i], filter_text)
                  /\ Cardinality({j \in 1..Len(files) :
                         files[j].full_name = files[i].full_name}) > 1

\* The text "sub" hides a.txt, and sub/a.txt is still shown as its duplicate.
C22_Witness ==
    /\ show_duplicates_only
    /\ ~show_today_only
    /\ filter_text = <<115,117,98>>
    /\ Len(files) = 4
    /\ Len(filtered_files) = 1
    /\ filtered_files[1].full_name = <<97,46,116,120,116>>
    /\ ~MatchesText(CHOOSE f \in {files[i] : i \in 1..4} :
                        f.full_name = <<97,46,116,120,116>> /\ f # filtered_files[1],
                    filter_text)

\* The sequence an operation of the view engine starts from: the delivered
\* result for check_scan_results, files for the others.
OperatesOn ==
    IF last'.op = "check_scan_results"
    THEN Head(scans[scan_receiver].msg).files
    ELSE files

\* This step installs a delivered file list.
InstallsScan ==
    /\ last'.op = "check_scan_results"
    /\ last'.ret = "ok"
    /\ PollReceivesScan

\* The reference pipeline: text filter, duplicate filter, today filter, then
\* the stable sort.
Reference(snapshot, column, order, text, dups_only, today_only) ==
    LET counts == CountByName(snapshot)
        TextOk(f) == text = <<>> \/ MatchesText(f, text)
        DupOk(f) == ~dups_only \/ counts[f.full_name] > 1
        TodayOk(f) == ~today_only \/ is_today(f.modified_timestamp, SystemTimeNow)
    IN  SortBy(column, order,
               SelectSeq(SelectSeq(SelectSeq(snapshot, TextOk), DupOk), TodayOk))

\* C24: after a scan delivery, a filter change or a sort change the rows are
\* what the reference pipeline (filters first, stable sort last) makes of the
\* sequence the operation started from.
C24_RowsEqualReferencePipeline ==
    [][ (ViewChange \/ InstallsScan)
        => filtered_files' = Reference(OperatesOn, sort_column', sort_order',
                                       filter_text', show_duplicates_only',
                                       show_today_only')
      ]_vars

\* A sort by descending size of a filtered four-file snapshot.
C24_Witness ==
    /\ last.op = "toggle_sort"
    /\ sort_column = "Size"
    /\ sort_order = "Descending"
    /\ Len(files) = 4
    /\ filter_text = <<65>>
    /\ Len(filtered_files) = 2

\* The place of record x in fs.
Pos(fs, x) == CHOOSE k \in 1..Len(fs) : fs[k] = x

\* post holds the records of pre, each once.
SameRecords(pre, post) ==
    /\ Len(post) = Len(pre)
    /\ \A i \in 1..Len(pre) : \E k \in 1..Len(post) : post[k] = pre[i]

\* C25: a sort leaves files ordered by the key of the column, ascending or
\* descending as the direction says, and records with equal keys keep the
\* relative order they had before the sort, in both directions.
C25_SortOrdersByKeyAndIsStable ==
    [][ ((last'.op = "toggle_sort" /\ toggle_sort(last'.ret)) \/ InstallsScan)
        => LET pre == OperatesOn
               Key(a, b) == FileCmp(sort_column', "Ascending", a, b)
           IN  /\ SameRecords(pre, files')
               /\ \A i, j \in 1..Len(files') :
                     i < j => IF sort_order' = "Ascending"
                              THEN Key(files'[i], files'[j]) <= 0
                              ELSE Key(files'[i], files'[j]) >= 0
               /\ \A i, j \in 1..Len(pre) :
                     (i < j /\ Key(pre[i], pre[j]) = 0)
                     => Pos(files', pre[i]) < Pos(files', pre[j])
      ]_vars

\* Four records by descending size: the two of size 10 follow each other in
\* the order they had, a.txt before sub/a.txt.
C25_Witness ==
    /\ last.op = "toggle_sort"
    /\ sort_column = "Size"
    /\ sort_order = "Descending"
    /\ Len(files) = 4
    /\ files[2].file_size = 10
    /\ files[3].file_size = 10
    /\ files[2].relative_path = <<97,46,116,120,116>>

\* The file list as a scan delivers it: ordered by lowercased relative_path.
Delivered == SortBy("Path", "Ascending", files)

\* C26 as stated: the rows are a function of the delivered snapshot, the sort
\* column, the direction and the three filter settings, whatever clicks came
\* before: the rows that sorting and filtering the delivered list gives.
C26_RowsFunctionOfSettings ==
    filtered_files = apply_filter(SortBy(sort_column, sort_order, Delivered),
                                  filter_text, show_duplicates_only,
                                  show_today_only, SystemTimeNow)

\* C27: toggle_sort(column) flips the direction when column is the active
\* one, and otherwise makes column active with the ascending direction; files
\* is then sorted again and the rows are filtered again.
C27_ToggleSortFlipsOrResets ==
    [][ (last'.op = "toggle_sort" /\ toggle_sort(last'.ret))
        => /\ sort_column' = last'.ret
           /\ IF sort_column = last'.ret
              THEN sort_order' # sort_order
              ELSE sort_order' = "Ascending"
           /\ sort_order' \in {"Ascending", "Descending"}
           /\ IsSortedBy(sort_column', sort_order', files')
           /\ SameRecords(files, files')
           /\ filtered_files' = apply_filter(files', filter_text,
                                             show_duplicates_only,
                                             show_today_only, SystemTimeNow)
           /\ IsSortedBy(sort_column', sort_order', filtered_files')
      ]_vars

\* A second click on the active column has turned the order to descending.
C27_Witness ==
    /\ last.op = "toggle_sort"
    /\ last.ret = sort_column
    /\ sort_order = "Descending"
    /\ Len(filtered_files) >= 2
    /\ IsSortedBy(sort_column, sort_order, filtered_files)

\* ----------------------------------------------------- today filter claims
\* Local midnight of the day of instant now_secs, in seconds since the epoch,
\* for a process utc_offset seconds east of UTC.
StartOfLocalDay(now_secs, utc_offset) ==
    ((now_secs + utc_offset) \div SecsPerDay) * SecsPerDay - utc_offset

\* C23 as stated: with only the today toggle on, a record is kept exactly
\* when its modified_timestamp lies in the 86400 seconds that start at the
\* local midnight of the process, for every time and every time-zone offset.
C23_TodayStartsAtLocalMidnight ==
    today_out.called
    => LET start == StartOfLocalDay(today_out.now_secs, today_out.utc_offset)
       IN  today_out.rows # <<>>
           <=> /\ today_out.timestamp >= start
               /\ today_out.timestamp < start + SecsPerDay

\* ------------------------------------------------------------ walker claims
\* Node n lies below directory base, at any depth.
RECURSIVE IsUnder(_, _, _)
IsUnder(fsys, n, base) ==
    /\ n.parent # NoParent
    /\ \/ n.parent = base
       \/ IsUnder(fsys, NodeOf(fsys, n.parent), base)

\* The directory the walk of walk_out starts from.
WalkBase == (CHOOSE n \in disk : n.abs = walk_out.path).id

\* The directories the walk reads when nothing stops it.
DirsRead ==
    {WalkBase} \cup
    (IF walk_out.recursive
     THEN {n.id : n \in {m \in disk : m.kind = "dir" /\ IsUnder(disk, m, WalkBase)}}
     ELSE {})

\* The files the walk is to return.
FilesBelow ==
    IF walk_out.recursive
    THEN {n \in disk : n.kind = "file" /\ IsUnder(disk, n, WalkBase)}
    ELSE {n \in disk : n.kind = "file" /\ n.parent = WalkBase}

\* The root is no directory, or a read of a directory of the walk fails.
WalkMeetsFailure ==
    \/ ~is_dir(disk, walk_out.path)
    \/ DirsRead \cap walk_out.env.fail_dirs # {}
    \/ \E n \in disk : n.parent \in DirsRead /\ n.id \in walk_out.env.bad_entries

\* C14: scan_folder returns an error and no records when the root is not a
\* directory or a read of a directory fails at any depth of the walk; it never
\* returns Ok with the records collected before the failure.
C14_FailedWalkReturnsNoRecords ==
    (walk_out.called /\ WalkMeetsFailure)
    => (~walk_out.result.ok /\ walk_out.result.files = <<>>)

\* A recursive walk that had collected a.txt when reading sub/ failed.
C14_Witness ==
    /\ walk_out.called
    /\ walk_out.path = "/dir"
    /\ walk_out.recursive
    /\ walk_out.env.fail_dirs = {3}
    /\ \E n \in disk : n.id = 3
    /\ scan_folder_internal(disk, 0, 0, TRUE, walk_out.env, <<>>).files # <<>>
    /\ ~walk_out.result.ok

\* C16: a walk that succeeds returns exactly the files that are direct
\* children of the root when it is not recursive, exactly the files at every
\* depth under the root when it is, each file once.
C16_WalkReturnsExactlyTheFiles ==
    (walk_out.called /\ walk_out.result.ok)
    => /\ {walk_out.result.files[i].absolute_path :
               i \in 1..Len(walk_out.result.files)} = {n.abs : n \in FilesBelow}
       /\ Len(walk_out.result.files) = Cardinality(FilesBelow)

\* The tree a.txt, b.TXT, sub/a.txt walked recursively: three records.
C16_Witness ==
    /\ disk = {n \in TreeDisk : n.id <= 4}
    /\ walk_out.called
    /\ walk_out.recursive
    /\ walk_out.result.ok
    /\ Len(walk_out.result.files) = 3

\* C17: a failure of metadata() on a file does not fail the walk: the walk
\* returns what it returns without that failure, except that the record of
\* the file has size 0 and timestamp 0.
C17_MetadataFailureDegradesRecord ==
    (walk_out.called /\ is_dir(disk, walk_out.path))
    => LET clean == scan_folder(disk, walk_out.path, walk_out.recursive,
                                [walk_out.env EXCEPT !.bad_meta = {}])
           got == walk_out.result
       IN  /\ got.ok = clean.ok
           /\ Len(got.files) = Len(clean.files)
           /\ \A i \in 1..Len(got.files) :
                 LET n == CHOOSE m \in disk : m.abs = got.files[i].absolute_path
                 IN  IF n.id \in walk_out.env.bad_meta
                     THEN got.files[i] = [clean.files[i] EXCEPT
                                            !.file_size = 0,
                                            !.modified_timestamp = 0]
                     ELSE got.files[i] = clean.files[i]

\* metadata() failed on b.TXT, and the walk returned it with two more records.
C17_Witness ==
    /\ walk_out.called
    /\ walk_out.result.ok
    /\ walk_out.env.bad_meta = {2}
    /\ Len(walk_out.result.files) >= 3
    /\ \E i \in 1..Len(walk_out.result.files) :
          /\ walk_out.result.files[i].absolute_path = "/dir/b.TXT"
          /\ walk_out.result.files[i].file_size = 0

\* --------------------------------------------------------- CSV export claims
RECURSIVE Undouble(_)
\* The text of a quoted field: two quotes stand for one.
Undouble(content) ==
    IF content = <<>> THEN <<>>
    ELSE IF Head(content) = 34 /\ Len(content) >= 2 /\ content[2] = 34
         THEN <<34>> \o Undouble(Tail(Tail(content)))
         ELSE <<Head(content)>> \o Undouble(Tail(content))

\* The position after the field starting at pos: for a field opening with a
\* quote, after its closing quote (a quote that follows whole pairs of quotes
\* and is not followed by one); otherwise at the next comma, line feed or
\* carriage return, or past the end.
FieldEnd(bytes, pos) ==
    IF bytes[pos] = 34
    THEN LET Quotes(k) == Cardinality({m \in (pos + 1)..k : bytes[m] = 34})
             closing == {j \in (pos + 1)..Len(bytes) :
                             /\ bytes[j] = 34
                             /\ Quotes(j - 1) % 2 = 0
                             /\ j = Len(bytes) \/ bytes[j + 1] # 34}
         IN  IF closing = {} THEN Len(bytes) + 2
             ELSE (CHOOSE j \in closing : \A k \in closing : j <= k) + 1
    ELSE LET stops == {j \in pos..Len(bytes) : bytes[j] \in {44, 10, 13}}
         IN  IF stops = {} THEN Len(bytes) + 1
             ELSE CHOOSE j \in stops : \A k \in stops : j <= k

RECURSIVE ParseCsv(_, _, _, _)
\* A reader of comma separated text, field by field from pos: fields end at a
\* comma, records at a line feed or carriage return; a field opening with a
\* quote runs to its closing quote.
ParseCsv(bytes, pos, record, records) ==
    IF pos > Len(bytes)
    THEN IF record = <<>> THEN records
         ELSE Append(records, Append(record, <<>>))
    ELSE LET n == FieldEnd(bytes, pos)
             field == IF bytes[pos] = 34
                      THEN Undouble(SubSeq(bytes, pos + 1, n - 2))
                      ELSE SubSeq(bytes, pos, n - 1)
             rec == Append(record, field)
         IN  IF n > Len(bytes) THEN Append(records, rec)
             ELSE IF bytes[n] = 44 THEN ParseCsv(bytes, n + 1, rec, records)
             ELSE IF bytes[n] \in {10, 13}
                  THEN ParseCsv(bytes, n + 1, <<>>, Append(records, rec))
                  ELSE ParseCsv(bytes, n, rec, records)

RECURSIVE FromDecimal(_)
\* The number a run of decimal digits stands for; -1 when it is not one.
FromDecimal(digits) ==
    IF digits = <<>> \/ \E i \in 1..Len(digits) : digits[i] \notin 48..57 THEN 0 - 1
    ELSE IF Len(digits) = 1 THEN digits[1] - 48
    ELSE 10 * FromDecimal(SubSeq(digits, 1, Len(digits) - 1))
         + (digits[Len(digits)] - 48)

\* The data rows read back from the exported bytes: the byte order mark and
\* the header record are skipped.
ReadBack(bytes) ==
    LET body == IF Len(bytes) >= 3 /\ SubSeq(bytes, 1, 3) = Bom
                THEN SubSeq(bytes, 4, Len(bytes)) ELSE bytes
        records == ParseCsv(body, 1, <<>>, <<>>)
    IN  IF records = <<>> THEN <<>> ELSE Tail(records)

\* The tuple of a record that the export carries.
ExportTuple(f) ==
    <<f.name, f.extension, f.file_size, f.relative_path, PathText(f.absolute_path)>>

\* A record read back, its size column as a number.
ReadTuple(r) ==
    IF Len(r) # 5 THEN r
    ELSE <<r[1], r[2], FromDecimal(r[3]), r[4], r[5]>>

\* C31: an export that succeeds writes one data row per visible record, in
\* the order of the visible rows, and reading the file back yields the tuples
\* (name, extension, size, relative path, absolute path) of exactly those
\* records; records the filter hides are not in the file.
C31_ExportRoundTripsVisibleRows ==
    [][ (last'.op = "export_csv" /\ last'.ret = "ok" /\ export_csv("ok"))
        => LET rows == ReadBack(csv_file'.bytes)
           IN  /\ csv_file'.exists
               /\ Len(rows) = Len(filtered_files)
               /\ \A i \in 1..Len(rows) :
                      ReadTuple(rows[i]) = ExportTuple(filtered_files[i]) ]_vars

\* An export of two visible rows out of four, one of them with a name that has
\* to be quoted, has been written.
C31_Witness ==
    /\ last.op = "export_csv" /\ last.ret = "ok"
    /\ Len(files) = 4 /\ Len(filtered_files) = 2
    /\ \E i \in 1..2 : NeedsQuotes(filtered_files[i].name)
    /\ csv_file.bytes = export_to_csv(filtered_files)

\* ------------------------------------------------- capability probe claims
\* Fetch threads that were spawned and have not run to their end.
AliveFetches == {t \in 1..Len(fetches) : fetches[t].pc # "done"}

\* In this step a fetch thread finished its body with the library bound.
FetchBinds ==
    \E t \in 1..Len(fetches) :
        /\ fetches[t].pc = "running"
        /\ fetches'[t].pc = "finishing"
        /\ fetches'[t].outcome = "bound"

\* C32: the body of each probe runs exactly once however often the probe is
\* called; a readiness flag that is true stays true; the video flag does not
\* change once its probe has run; after its probe the PDF flag changes only
\* in a step where a fetch thread ends its body with the library bound.
C32_ProbesRunOnceFlagsMonotone ==
    [][ /\ probes'.ffmpeg_calls >= 1 => probes'.ffmpeg_runs = 1
        /\ probes'.pdfium_calls >= 1 => probes'.pdfium_runs = 1
        /\ FFMPEG_AVAILABLE => FFMPEG_AVAILABLE'
        /\ PDFIUM_AVAILABLE => PDFIUM_AVAILABLE'
        /\ FFMPEG_CHECKED => FFMPEG_AVAILABLE' = FFMPEG_AVAILABLE
        /\ (PDFIUM_CHECKED /\ PDFIUM_AVAILABLE' # PDFIUM_AVAILABLE)
           => (~PDFIUM_AVAILABLE /\ FetchBinds) ]_vars

\* Both probes were called twice, the video tool was found, and the PDF
\* library became ready through a fetch.
C32_Witness ==
    /\ probes.ffmpeg_calls = 2 /\ probes.pdfium_calls = 2
    /\ FFMPEG_AVAILABLE
    /\ PDFIUM_AVAILABLE
    /\ \E t \in 1..Len(fetches) : fetches[t].pc = "done" /\ fetches[t].outcome = "bound"

\* C33: at most one fetch thread is alive at any time, and the downloading
\* flag is true exactly while one is.
C33_AtMostOneFetchAlive ==
    /\ Cardinality(AliveFetches) <= 1
    /\ PDFIUM_DOWNLOADING <=> AliveFetches # {}

\* --------------------------------------------------- preview resizing claims
\* C35: an image with both sides at most 400 keeps its size; otherwise the
\* larger side of the preview is exactly 400 and the smaller one is the
\* original scaled by the same ratio, truncated to an integer.
C35_PreviewFitsLargerSideTo400 ==
    resize_out.called
    => LET w == resize_out.w
           h == resize_out.h
           preview == resize_out.preview
       IN  IF w <= 400 /\ h <= 400
           THEN preview = [width |-> w, height |-> h]
           ELSE IF w >= h
                THEN preview = [width |-> 400, height |-> (400 * h) \div w]
                ELSE preview = [width |-> (400 * w) \div h, height |-> 400]

\* ------------------------------------------------ video extraction claims
\* The calls of extract_video_thumbnail that have returned.
Returned == {t \in 1..MaxTasks : extractions[t].pc = "returned"}

\* The frames are asked for in the order second 1, second 0, the second never
\* before the first attempt has finished.
RequestsInOrder(e) ==
    /\ e.requests \in {<<>>, <<1>>, <<1, 0>>}
    /\ Len(e.requests) = 2 => Len(e.yielded) >= 1

\* The call returns data exactly when one of its attempts read data.
YieldsWhatAttemptsDid(e) ==
    e.source # None <=> \E i \in 1..Len(e.yielded) : e.yielded[i]

C36_CacheEntryComesFromItsPath ==
    \A p \in Paths :
        image_cache[p] # 0 => extractions[image_cache[p]].source = p

\* ---------------------------------------------------- duplicate count claims
\* C38: duplicate_counts is the number of occurrences of each full_name in
\* files, in every state, also after a scan that failed and emptied files.
C38_DuplicateCountsMatchFiles ==
    duplicate_counts = CountByName(files)

\* ------------------------------------------------------ re-scan claims
\* The payload of preview thread t is in the cache.
Cached(t) == \E p \in Paths : image_cache[p] = t

\* The scan has ended and its snapshot was installed.
SnapshotDelivered == ~is_scanning /\ error_message = None

\* C37: an extraction that was in flight when a scan started, or that was
\* requested while the scan was running, leaves no entry in the cache once
\* the new snapshot has been delivered. The start of the scan emptied the
\* cache, so whatever the cache holds when the snapshot is delivered was
\* received during the scan, from such an extraction: the step that delivers
\* the snapshot must end with an empty cache.
C37_RescanInvalidatesEarlierPreviews ==
    [][ (is_scanning /\ SnapshotDelivered')
        => \A t \in 1..MaxTasks : ~Cached(t)' ]_vars

\* ------------------------------------------------------------ rename claims
\* The files of fsys, by absolute path.
FilePaths(fsys) == {n.abs : n \in {m \in fsys : m.kind = "file"}}

\* C39: a confirm_rename that renames a file renames the file whose name
\* start_rename loaded into the rename box, whatever happened to the visible
\* rows in between: no other file leaves its path.
C39_ConfirmRenamesTheLoadedFile ==
    [][ (last'.op = "confirm_rename" /\ last'.ret = "renamed" /\ disk' # disk)
        => (rename_target \in FilePaths(disk) /\ rename_target \notin FilePaths(disk')) ]_vars

\* ----------------------------------------------------------- liveness claims
\* C40: every scan that was started is eventually resolved: is_scanning
\* becomes false again, the scan thread having sent its one message, snapshot
\* or error.
C40_StartedScanIsResolved == is_scanning ~> ~is_scanning

\* The last of the scans was started, its thread sent an error, and the poll
\* that received it ended the scan.
C40_Witness ==
    /\ Len(scans) = MaxScans + MaxRescans
    /\ ~is_scanning
    /\ last.op = "check_scan_results"
    /\ error_message # None
    /\ \A s \in 1..Len(scans) : scans[s].pc = "done"

====
